---------------------------- MODULE Spec2Model ----------------------------
(***************************************************************************)
(* A model of ace-skyspark-lib's client core:                              *)
(*   - ScramAuthenticator.authenticate  (auth/authenticator.py)            *)
(*   - TokenManager                     (auth/token_manager.py)            *)
(*   - RetryPolicy and SessionManager   (http/retry.py, http/session.py)   *)
(*   - ZincEncoder and Zinc decoding    (formats/zinc.py,                  *)
(*                                       models/entities.py)               *)
(*   - HistoryOperations                (operations/history_ops.py)        *)
(*   - SkysparkClient                   (client.py)                        *)
(* Each component has its own specification (SpecAuth, SpecToken,          *)
(* SpecSession, SpecPipeline, SpecChunking, SpecCodec); SpecWrite runs a   *)
(* history write over the SessionManager and SpecClient the client with    *)
(* its handshake and its requests; SpecSessionFair and SpecPipelineFair     *)
(* add the scheduling that termination rests on.  The variables of the     *)
(* components a specification does not run are parked at their             *)
(* constructed values.                                                     *)
(***************************************************************************)
EXTENDS Integers, Sequences, FiniteSets, TLC

VARIABLES
    \* ---- ScramAuthenticator (one authenticate() call at a time)
    a_pc,           \* position of authenticate(): the request it awaits
    a_sent,         \* the requests authenticate() has sent, in order
    a_resp,         \* the responses it has received, in order
    a_result,       \* the value authenticate() returned ("None" before)
    a_error,        \* the phase whose check raised ("none" when none did)
    scram_client,   \* self._scram_client: the SCRAM state kept between steps
    \* ---- TokenManager and the tasks calling it
    now,            \* datetime.now(UTC), in clock units
    cache_duration, \* TokenManager.cache_duration, in clock units
    token,          \* TokenManager._token ("None" when None)
    token_expiry,   \* TokenManager._token_expiry (NoExpiry when None)
    lock_holder,    \* the task inside `async with self._refresh_lock` (0: none)
    lock_waiters,   \* the tasks suspended in _refresh_lock.acquire(), in order
    t_pc,           \* each task's position in its call
    t_op,           \* the method each task called
    t_result,       \* the token each call returned ("None" before)
    \* history of the current round of calls
    t_ran,          \* whether the call ran authenticate() itself
    t_early,        \* whether the call was launched on an absent or expired
                    \* cache, before any handshake of the round completed
    handshakes,     \* authenticate() calls started in this round
    first_expiry,   \* the expiry the round's first completed handshake set
    invalidations,  \* invalidate() calls in this round
    inv_in_flight,  \* whether invalidate() ran during a handshake of this round
    \* ---- RetryPolicy.execute, called by SessionManager or directly
    max_retries,    \* RetryPolicy.max_retries
    s_op,           \* the operation being executed
    s_pc,           \* position of execute(): in an attempt, in a backoff, ended
    attempts,       \* invocations of the wrapped operation by this execute()
    sleeps,         \* backoff delays of this execute()
    s_log,          \* what each finished attempt met (response or exception)
    s_auth,         \* the token each attempt of a session operation sent
    s_result,       \* what execute() returned or raised
    \* ---- HistoryOperations.write_samples / write_samples_chunked (one call)
    w_samples,      \* the samples argument
    chunk_size,     \* the chunk_size argument
    max_concurrent, \* the max_concurrent argument
    w_mode,         \* the method called ("none" before the call)
    w_pc,           \* "idle", "running" (writes pending or in flight), "done"
    chunks,         \* the sample lists handed to write_samples, by chunk index
    c_state,        \* each chunk's task: "pending", "writing", "finished"
    c_post,         \* what post_zinc did for each chunk ("none" before)
    c_outcome,      \* what each chunk's task ended with ("none" before)
    done_order,     \* the chunk indexes in the order their writes ended
    results,        \* the value returned to the caller
    encodes,        \* grids encoded by this call
    posts,          \* post_zinc calls issued by this call
    use_rpc,        \* the use_rpc argument of write_samples (default True)
    requests,       \* the post_zinc calls issued: endpoint and grid, in order
    \* ---- ZincEncoder and the Zinc decoding of the models (one call)
    z_fn,           \* the function called ("none" before the call)
    z_in,           \* the call to make: the function's name and its argument
    z_out,          \* what it returned or raised ("none" before)
    \* ---- SkysparkClient
    cl_pc,          \* "constructed", "entering" (__aenter__ awaits get_token),
                    \* "entered", "failed" (__aenter__ raised), "closed"
    auth_session,   \* self._auth_session: a httpx.AsyncClient, or "None"
    api_session,    \* self._api_session: a httpx.AsyncClient, or "None"
    open_clients,   \* the httpx.AsyncClients created and not closed
    authenticator_session,  \* ScramAuthenticator.session ("None" before)
    manager_session,        \* SessionManager.session ("None" before)
    wire            \* the requests sent: the httpx client and the request

authVars == <<a_pc, a_sent, a_resp, a_result, a_error, scram_client>>
tmVars == <<now, cache_duration, token, token_expiry, lock_holder, lock_waiters,
            t_pc, t_op, t_result, t_ran, t_early, handshakes, first_expiry,
            invalidations, inv_in_flight>>

sessVars == <<max_retries, s_op, s_pc, attempts, sleeps, s_log, s_auth, s_result>>

pipeVars == <<w_samples, chunk_size, max_concurrent, w_mode, w_pc, chunks,
              c_state, c_post, c_outcome, done_order, results, encodes, posts,
              use_rpc, requests>>

codecVars == <<z_fn, z_in, z_out>>

clientVars == <<cl_pc, auth_session, api_session, open_clients,
                authenticator_session, manager_session, wire>>

vars == <<authVars, tmVars, sessVars, pipeVars, codecVars, clientVars>>

\* what each component's actions leave alone
notAuth == <<tmVars, sessVars, pipeVars, codecVars, clientVars>>
notTM == <<authVars, sessVars, pipeVars, codecVars, clientVars>>
notSess == <<authVars, tmVars, pipeVars, codecVars, clientVars>>
notPipe == <<authVars, tmVars, sessVars, codecVars, clientVars>>
notCodec == <<authVars, tmVars, sessVars, pipeVars, clientVars>>

-----------------------------------------------------------------------------
(* ScramAuthenticator *)

\* Handshake tokens a server may put in a challenge; "" is an absent or empty
\* handshakeToken field (parts.get("handshakeToken", "")).
HelloTokens == {"", "h1"}
ChallengeTokens == {"", "h1", "h2"}
\* authToken values of Authentication-Info; "" is an absent or empty field.
AuthTokens == {"", "tA", "tB"}
\* The base64url `data` field of a challenge or of Authentication-Info:
\*   ""            absent or empty (decodes to the empty message)
\*   "undecodable" urlsafe_b64decode or .decode("utf-8") raises ValueError
\*   "rejected"    decodes, and the SCRAM client rejects the message
\*   "ok"          decodes, and the SCRAM client accepts the message
DataFields == {"", "undecodable", "rejected", "ok"}
Statuses == {200, 401, 403}

\* header: "absent" (no such header), "malformed" (a segment without "="),
\* "fields" (key=value segments, given by the other fields)
Response(k, s, h, ht, at, d) ==
    [kind |-> k, status |-> s, header |-> h, handshakeToken |-> ht,
     authToken |-> at, data |-> d]

\* session.get raised (httpx.RequestError, timeout)
NetworkError == Response("error", 0, "absent", "", "", "")

HelloResponses ==
    {NetworkError}
    \cup {Response("response", s, h, "", "", "") :
            s \in Statuses, h \in {"absent", "malformed"}}
    \cup {Response("response", s, "fields", ht, "", "") :
            s \in Statuses, ht \in HelloTokens}

ClientFirstResponses ==
    {NetworkError}
    \cup {Response("response", s, h, "", "", "") :
            s \in Statuses, h \in {"absent", "malformed"}}
    \cup {Response("response", s, "fields", ht, "", d) :
            s \in Statuses, ht \in ChallengeTokens, d \in DataFields}

ClientFinalResponses ==
    {NetworkError}
    \cup {Response("response", s, h, "", "", "") :
            s \in Statuses, h \in {"absent", "malformed"}}
    \cup {Response("response", s, "fields", "", at, d) :
            s \in Statuses, at \in AuthTokens, d \in DataFields}

\* urlsafe_b64decode(data + padding).decode("utf-8") raises ValueError
DecodeRaises(d) == d = "undecodable"

\* ScramClient.set_server_first / set_server_final raise on a message they
\* cannot parse or verify; the empty message is one.
ScramRejects(d) == d \in {"", "rejected"}

Raise(phase) == [ok |-> FALSE, token |-> "", phase |-> phase, scram |-> FALSE]
Return(tok, phase) == [ok |-> TRUE, token |-> tok, phase |-> phase, scram |-> TRUE]

\* _hello: the handshake token of the HELLO response, or a raise
Hello(r) ==
    IF r.kind = "error" THEN Raise("HELLO")
    ELSE IF r.status \notin {200, 401} THEN Raise("HELLO")
    ELSE IF r.header = "absent" THEN Raise("HELLO")
    ELSE IF r.header = "malformed" THEN Raise("HELLO")
    ELSE IF r.handshakeToken = "" THEN Raise("HELLO")
    ELSE Return(r.handshakeToken, "HELLO")

\* ClientFirst with the status check of _hello (200 or 401) in place of its own
ClientFirst_Accepts200(r) ==
    IF r.kind = "error" THEN Raise("CLIENT-FIRST")
    ELSE IF r.status \notin {200, 401} THEN Raise("CLIENT-FIRST")
    ELSE IF r.header = "absent" THEN Raise("CLIENT-FIRST")
    ELSE IF r.header = "malformed" THEN Raise("CLIENT-FIRST")
    ELSE IF DecodeRaises(r.data) THEN Raise("CLIENT-FIRST")
    ELSE IF ScramRejects(r.data)
         THEN [Raise("CLIENT-FIRST") EXCEPT !.scram = TRUE]
    ELSE Return(r.handshakeToken, "CLIENT-FIRST")

\* _client_first: the new handshake token of the challenge, or a raise.
\* scram: whether self._scram_client was assigned before the raise.
ClientFirst(r) ==
    IF r.kind = "error" THEN Raise("CLIENT-FIRST")
    ELSE IF r.status # 401 THEN Raise("CLIENT-FIRST")
    ELSE IF r.header = "absent" THEN Raise("CLIENT-FIRST")
    ELSE IF r.header = "malformed" THEN Raise("CLIENT-FIRST")
    ELSE IF DecodeRaises(r.data) THEN Raise("CLIENT-FIRST")
    ELSE IF ScramRejects(r.data)
         THEN [Raise("CLIENT-FIRST") EXCEPT !.scram = TRUE]
    ELSE Return(r.handshakeToken, "CLIENT-FIRST")

\* _client_final: the authToken of Authentication-Info, or a raise
ClientFinal(r) ==
    IF r.kind = "error" THEN Raise("CLIENT-FINAL")
    ELSE IF r.status # 200 THEN Raise("CLIENT-FINAL")
    ELSE IF r.header = "absent" THEN Raise("CLIENT-FINAL")
    ELSE IF r.header = "malformed" THEN Raise("CLIENT-FINAL")
    ELSE IF DecodeRaises(r.data) THEN Raise("CLIENT-FINAL")
    ELSE IF ScramRejects(r.data) THEN Raise("CLIENT-FINAL")
    ELSE Return(r.authToken, "CLIENT-FINAL")

Request(phase, ht) == [phase |-> phase, handshakeToken |-> ht]

\* FinalHandshakeToken keeping the HELLO token (the local is not reassigned)
FinalHandshakeToken_Stale(helloToken, newToken) == helloToken

\* The handshake token CLIENT-FINAL is sent with: the one _client_first
\* returned, which replaces the HELLO one in authenticate()'s local.
FinalHandshakeToken(helloToken, newToken) == newToken

AuthInit ==
    /\ a_pc = "idle"
    /\ a_sent = <<>>
    /\ a_resp = <<>>
    /\ a_result = "None"
    /\ a_error = "none"
    /\ scram_client = "unset"

\* authenticate() is called: it runs to its first await, the HELLO request.
AuthenticateStep ==
    /\ a_pc \in {"idle", "returned", "raised"}
    /\ a_pc' = "hello"
    /\ a_sent' = <<Request("HELLO", "n/a")>>
    /\ a_resp' = <<>>
    /\ a_result' = "None"
    /\ a_error' = "none"
    /\ UNCHANGED scram_client

Authenticate == AuthenticateStep /\ UNCHANGED notAuth

\* The HELLO response arrives: _hello finishes and, unless it raised,
\* _client_first sends the CLIENT-FIRST request.
HelloResponseStep ==
    /\ a_pc = "hello"
    /\ \E r \in HelloResponses :
        LET res == Hello(r) IN
        /\ a_resp' = Append(a_resp, r)
        /\ IF res.ok
           THEN /\ a_sent' = Append(a_sent, Request("CLIENT-FIRST", res.token))
                /\ a_pc' = "client_first"
                /\ a_error' = "none"
           ELSE /\ a_sent' = a_sent
                /\ a_pc' = "raised"
                /\ a_error' = res.phase
    /\ UNCHANGED <<a_result, scram_client>>

HelloResponse == HelloResponseStep /\ UNCHANGED notAuth

\* The CLIENT-FIRST response arrives: _client_first finishes and, unless it
\* raised, _client_final sends the CLIENT-FINAL request.
ClientFirstResponseStep ==
    /\ a_pc = "client_first"
    /\ \E r \in ClientFirstResponses :
        LET res == ClientFirst(r) IN
        /\ a_resp' = Append(a_resp, r)
        /\ scram_client' = IF res.scram THEN "stored" ELSE scram_client
        /\ IF res.ok
           THEN /\ a_sent' = Append(a_sent,
                        Request("CLIENT-FINAL",
                                FinalHandshakeToken(a_sent[2].handshakeToken,
                                                    res.token)))
                /\ a_pc' = "client_final"
                /\ a_error' = "none"
           ELSE /\ a_sent' = a_sent
                /\ a_pc' = "raised"
                /\ a_error' = res.phase
    /\ UNCHANGED a_result

ClientFirstResponse == ClientFirstResponseStep /\ UNCHANGED notAuth

\* The CLIENT-FINAL response arrives: authenticate() returns or raises.
ClientFinalResponseStep ==
    /\ a_pc = "client_final"
    /\ \E r \in ClientFinalResponses :
        LET res == ClientFinal(r) IN
        /\ a_resp' = Append(a_resp, r)
        /\ IF res.ok
           THEN /\ a_pc' = "returned"
                /\ a_result' = res.token
                /\ a_error' = "none"
                /\ scram_client' = "verified"
           ELSE /\ a_pc' = "raised"
                /\ a_result' = "None"
                /\ a_error' = res.phase
                /\ scram_client' = scram_client
    /\ UNCHANGED a_sent

ClientFinalResponse == ClientFinalResponseStep /\ UNCHANGED notAuth

AuthNext ==
    \/ Authenticate
    \/ HelloResponse
    \/ ClientFirstResponse
    \/ ClientFinalResponse

-----------------------------------------------------------------------------
(* TokenManager *)

NumTasks == 2
MaxTime == 3
MaxCacheDuration == 2
MaxInvalidate == 1

Tasks == 1..NumTasks

\* self._token_expiry = None
NoExpiry == -1

\* TokenValid with the expiry instant itself still counted as valid
TokenValid_Inclusive(tok, exp, t) ==
    tok \notin {"None", ""} /\ exp # NoExpiry /\ t <= exp

\* `self._token and self._token_expiry and datetime.now(UTC) < self._token_expiry`
\* (None and the empty string are falsy)
TokenValid(tok, exp, t) == tok \notin {"None", ""} /\ exp # NoExpiry /\ t < exp

\* LockFree of a guard that never makes a caller wait
LockFree_NoGuard(holder, waiters) == TRUE

\* Whether _refresh_lock.acquire() returns at once: the lock is not held and
\* no earlier caller is queued for it (asyncio.Lock is first come, first served).
LockFree(holder, waiters) == holder = 0 /\ waiters = <<>>

\* SkipsHandshake without the double check
SkipsHandshake_NoRecheck(tok, exp, t) == FALSE

\* Whether refresh_token, holding the lock, returns the cached token instead
\* of running the handshake (the double check).
SkipsHandshake(tok, exp, t) == TokenValid(tok, exp, t)

TMInit ==
    /\ now = 0
    /\ cache_duration \in 0..MaxCacheDuration
    /\ token = "None"
    /\ token_expiry = NoExpiry
    /\ lock_holder = 0
    /\ lock_waiters = <<>>
    /\ t_pc = [t \in Tasks |-> "idle"]
    /\ t_op = [t \in Tasks |-> "none"]
    /\ t_result = [t \in Tasks |-> "None"]
    /\ t_ran = [t \in Tasks |-> FALSE]
    /\ t_early = [t \in Tasks |-> FALSE]
    /\ handshakes = 0
    /\ first_expiry = NoExpiry
    /\ invalidations = 0
    /\ inv_in_flight = FALSE

TMParked == TMInit /\ cache_duration = MaxCacheDuration

\* The body of `async with self._refresh_lock:` for task t, which holds the
\* lock: return the cached token and release the lock, or start authenticate().
UnderLock(t) ==
    IF SkipsHandshake(token, token_expiry, now)
    THEN /\ t_pc' = [t_pc EXCEPT ![t] = "returned"]
         /\ t_result' = [t_result EXCEPT ![t] = token]
         /\ lock_holder' = 0
         /\ UNCHANGED <<t_ran, handshakes>>
    ELSE /\ t_pc' = [t_pc EXCEPT ![t] = "authenticating"]
         /\ lock_holder' = t
         /\ t_ran' = [t_ran EXCEPT ![t] = TRUE]
         /\ handshakes' = handshakes + 1
         /\ UNCHANGED t_result

\* refresh_token() up to its first suspension: wait for the lock, or take it
\* and run the body.
EnterRefresh(t) ==
    IF LockFree(lock_holder, lock_waiters)
    THEN /\ UnderLock(t)
         /\ UNCHANGED lock_waiters
    ELSE /\ t_pc' = [t_pc EXCEPT ![t] = "waiting"]
         /\ lock_waiters' = Append(lock_waiters, t)
         /\ UNCHANGED <<lock_holder, t_result, t_ran, handshakes>>

\* Task t calls get_token().
GetTokenCall(t) ==
    /\ t_pc[t] = "idle"
    /\ t_op' = [t_op EXCEPT ![t] = "get_token"]
    /\ IF TokenValid(token, token_expiry, now)
       THEN /\ t_pc' = [t_pc EXCEPT ![t] = "returned"]
            /\ t_result' = [t_result EXCEPT ![t] = token]
            /\ UNCHANGED <<lock_holder, lock_waiters, t_ran, t_early, handshakes>>
       ELSE /\ EnterRefresh(t)
            /\ t_early' = [t_early EXCEPT ![t] = (first_expiry = NoExpiry)]
    /\ UNCHANGED <<now, cache_duration, token, token_expiry, first_expiry,
                   invalidations, inv_in_flight>>

GetToken(t) == GetTokenCall(t) /\ UNCHANGED notTM

\* Task t calls refresh_token() directly.
RefreshToken(t) ==
    /\ t_pc[t] = "idle"
    /\ t_op' = [t_op EXCEPT ![t] = "refresh_token"]
    /\ EnterRefresh(t)
    /\ UNCHANGED <<now, cache_duration, token, token_expiry, t_early,
                   first_expiry, invalidations, inv_in_flight>>
    /\ UNCHANGED notTM

\* The lock is released and task t is the first waiter: acquire() returns in
\* t, which runs the body.
LockGranted(t) ==
    /\ t_pc[t] = "waiting"
    /\ lock_holder = 0
    /\ lock_waiters # <<>>
    /\ Head(lock_waiters) = t
    /\ lock_waiters' = Tail(lock_waiters)
    /\ UnderLock(t)
    /\ UNCHANGED <<now, cache_duration, token, token_expiry, t_op, t_early,
                   first_expiry, invalidations, inv_in_flight>>
    /\ UNCHANGED notTM

\* a refresh that stores nothing when invalidate() ran during its handshake
AuthReturnsWith_HonoursInvalidate(t, tok) ==
    /\ t_pc[t] = "authenticating"
    /\ token' = IF inv_in_flight THEN "None" ELSE tok
    /\ t_result' = [t_result EXCEPT ![t] = tok]
    /\ token_expiry' = IF inv_in_flight THEN NoExpiry ELSE now + cache_duration
    /\ first_expiry' = IF first_expiry = NoExpiry THEN now + cache_duration
                       ELSE first_expiry
    /\ lock_holder' = 0
    /\ t_pc' = [t_pc EXCEPT ![t] = "returned"]
    /\ UNCHANGED <<now, cache_duration, lock_waiters, t_op, t_ran, t_early,
                   handshakes, invalidations, inv_in_flight>>

\* authenticate() returns tok in task t: the token and its expiry are stored,
\* the lock is released, refresh_token returns.
AuthReturnsWith(t, tok) ==
    /\ t_pc[t] = "authenticating"
    /\ token' = tok
    /\ t_result' = [t_result EXCEPT ![t] = tok]
    /\ token_expiry' = now + cache_duration
    /\ first_expiry' = IF first_expiry = NoExpiry THEN now + cache_duration
                       ELSE first_expiry
    /\ lock_holder' = 0
    /\ t_pc' = [t_pc EXCEPT ![t] = "returned"]
    /\ UNCHANGED <<now, cache_duration, lock_waiters, t_op, t_ran, t_early,
                   handshakes, invalidations, inv_in_flight>>

AuthReturns(t) ==
    /\ \E tok \in AuthTokens : AuthReturnsWith(t, tok)
    /\ UNCHANGED notTM

\* a refresh_token whose lock stays held when authenticate() raises
AuthRaisesIn_KeepsLock(t) ==
    /\ t_pc[t] = "authenticating"
    /\ t_pc' = [t_pc EXCEPT ![t] = "raised"]
    /\ UNCHANGED <<now, cache_duration, token, token_expiry, lock_holder,
                   lock_waiters, t_op, t_result, t_ran, t_early, handshakes,
                   first_expiry, invalidations, inv_in_flight>>

\* authenticate() raises AuthenticationError in task t: the lock is released
\* and the error propagates to the caller.
AuthRaisesIn(t) ==
    /\ t_pc[t] = "authenticating"
    /\ lock_holder' = 0
    /\ t_pc' = [t_pc EXCEPT ![t] = "raised"]
    /\ UNCHANGED <<now, cache_duration, token, token_expiry, lock_waiters, t_op,
                   t_result, t_ran, t_early, handshakes, first_expiry,
                   invalidations, inv_in_flight>>

AuthRaises(t) == AuthRaisesIn(t) /\ UNCHANGED notTM

\* invalidate()
Invalidate ==
    /\ invalidations < MaxInvalidate
    /\ token' = "None"
    /\ token_expiry' = NoExpiry
    /\ invalidations' = invalidations + 1
    /\ inv_in_flight' = (inv_in_flight \/ lock_holder # 0)
    /\ UNCHANGED <<now, cache_duration, lock_holder, lock_waiters, t_pc, t_op,
                   t_result, t_ran, t_early, handshakes, first_expiry>>
    /\ UNCHANGED notTM

\* The clock advances.
Tick ==
    /\ now < MaxTime
    /\ now' = now + 1
    /\ UNCHANGED <<cache_duration, token, token_expiry, lock_holder,
                   lock_waiters, t_pc, t_op, t_result, t_ran, t_early,
                   handshakes, first_expiry, invalidations, inv_in_flight>>
    /\ UNCHANGED notTM

AllFinished == \A t \in Tasks : t_pc[t] \in {"returned", "raised"}

\* Every call of the round has finished; the tasks make a new round of calls
\* on the same TokenManager (its cache and the clock are kept, the history of
\* the round is cleared).
NewRound ==
    /\ AllFinished
    /\ t_pc' = [t \in Tasks |-> "idle"]
    /\ t_op' = [t \in Tasks |-> "none"]
    /\ t_result' = [t \in Tasks |-> "None"]
    /\ t_ran' = [t \in Tasks |-> FALSE]
    /\ t_early' = [t \in Tasks |-> FALSE]
    /\ handshakes' = 0
    /\ first_expiry' = NoExpiry
    /\ invalidations' = 0
    /\ inv_in_flight' = FALSE
    /\ UNCHANGED <<now, cache_duration, token, token_expiry, lock_holder,
                   lock_waiters>>
    /\ UNCHANGED notTM

TMNext ==
    \/ \E t \in Tasks : GetToken(t)
    \/ \E t \in Tasks : RefreshToken(t)
    \/ \E t \in Tasks : LockGranted(t)
    \/ \E t \in Tasks : AuthReturns(t)
    \/ \E t \in Tasks : AuthRaises(t)
    \/ Invalidate
    \/ Tick
    \/ NewRound

-----------------------------------------------------------------------------
(* RetryPolicy and SessionManager *)

MaxMaxRetries == 3
\* RetryPolicy(max_retries=3), SessionManager(max_retries=3)
DefaultMaxRetries == 3

SessionOps == {"post_zinc", "get_json", "post_json"}
\* "func": any other operation handed to RetryPolicy.execute
Ops == SessionOps \cup {"func"}

Exc(type, status) == [kind |-> "exception", type |-> type, status |-> status,
                      body |-> "none"]
Resp(status, body) == [kind |-> "response", type |-> "none", status |-> status,
                       body |-> body]

\* What the transport may do on one attempt of a session operation:
\* session.post / session.get raise, or a response arrives. body: "json"
\* (a JSON document), "json_err" (a JSON document whose meta carries err),
\* "not_json".
TransportExceptions ==
    {Exc("RequestError", 0), Exc("TimeoutException", 0)}
TransportOutcomes ==
    TransportExceptions
    \cup {Resp(200, b) : b \in {"json", "json_err", "not_json"}}
    \cup {Resp(st, "not_json") : st \in {401, 404, 500, 503}}

\* What one attempt of an arbitrary wrapped operation may do: return, or raise
\* any exception.
FuncOutcomes ==
    {Resp(200, "json")}
    \cup TransportExceptions
    \cup {Exc("asyncio.TimeoutError", 0), Exc("ValueError", 0)}
    \cup {Exc("HTTPStatusError", st) : st \in {404, 500, 503}}

Outcomes(op) == IF op = "func" THEN FuncOutcomes ELSE TransportOutcomes

Returns(v) == [ok |-> TRUE, value |-> v, exc |-> Exc("none", 0)]
Raises(e) == [ok |-> FALSE, value |-> "none", exc |-> e]

\* an attempt that raises a retryable error for a grid whose meta carries err
Attempt_RetriesErrGrid(op, o) ==
    IF o.kind = "exception" THEN Raises(o)
    ELSE IF op = "func" THEN Returns(o.body)
    ELSE IF o.status # 200 THEN Raises(Exc("ServerError", o.status))
    ELSE IF o.body = "json_err" THEN Raises(Exc("RequestError", 0))
    ELSE IF o.body # "not_json" THEN Returns(o.body)
    ELSE IF op = "post_zinc" THEN Returns("text")
    ELSE Raises(Exc("JSONDecodeError", 0))

\* One attempt (_post / _get) of a session operation, or of the wrapped
\* operation itself: what it returns or raises for what it met.
Attempt(op, o) ==
    IF o.kind = "exception" THEN Raises(o)
    ELSE IF op = "func" THEN Returns(o.body)
    ELSE IF o.status # 200 THEN Raises(Exc("ServerError", o.status))
    ELSE IF o.body # "not_json" THEN Returns(o.body)
    ELSE IF op = "post_zinc" THEN Returns("text")
    ELSE Raises(Exc("JSONDecodeError", 0))

\* IsRetryable that also retries the library's ServerError
IsRetryable_ServerError(e) ==
    \/ e.type \in {"RequestError", "TimeoutException", "asyncio.TimeoutError"}
    \/ e.type = "HTTPStatusError" /\ 500 <= e.status /\ e.status < 600
    \/ e.type = "ServerError"

\* RetryPolicy._is_retryable_exception
IsRetryable(e) ==
    \/ e.type \in {"RequestError", "TimeoutException", "asyncio.TimeoutError"}
    \/ e.type = "HTTPStatusError" /\ 500 <= e.status /\ e.status < 600

\* StopAfterAttempt that allows max_retries + 1 retries
StopAfterAttempt_OneMore(attempt_number, retries) == attempt_number > retries + 1

\* stop_after_attempt(self.max_retries + 1)
StopAfterAttempt(attempt_number, retries) == attempt_number >= retries + 1

\* `Authorization: Bearer authToken=<token>` of _get_headers: the cached
\* token, or no header ("none") when none is cached or it is empty.
AuthHeader(tok) == IF tok \in {"None", ""} THEN "none" ELSE tok

\* the headers of every attempt after the first are those of the first one
AttemptHeader_FromFirstAttempt(sent, tok) ==
    IF sent = <<>> THEN AuthHeader(tok) ELSE sent[1]

\* _get_headers() is called inside _post, the callable every attempt runs: each
\* attempt reads get_cached_token() anew, whatever was sent before.
AttemptHeader(sent, tok) == AuthHeader(tok)

\* a get_cached_token that hands out the token only until its expiry
GetCachedToken_UntilExpiry(tok, exp, t) ==
    IF exp # NoExpiry /\ t < exp THEN tok ELSE "None"

\* TokenManager.get_cached_token: `return self._token`, whatever the expiry
\* and the clock
GetCachedToken(tok, exp, t) == tok

SessInit ==
    /\ max_retries \in 0..MaxMaxRetries
    /\ s_op = "none"
    /\ s_pc = "idle"
    /\ attempts = 0
    /\ sleeps = 0
    /\ s_log = <<>>
    /\ s_auth = <<>>
    /\ s_result = "None"

SessParked == SessInit /\ max_retries = DefaultMaxRetries

\* post_zinc, get_json, post_json or RetryPolicy.execute is called: execute()
\* runs to the await of its first attempt.
ExecuteStep(op) ==
    /\ s_pc \in {"idle", "returned", "raised"}
    /\ s_op' = op
    /\ s_pc' = "in_flight"
    /\ attempts' = 1
    /\ sleeps' = 0
    /\ s_log' = <<>>
    /\ s_auth' = IF op \in SessionOps
                 THEN <<AttemptHeader(<<>>, GetCachedToken(token, token_expiry,
                                                          now))>>
                 ELSE <<>>
    /\ s_result' = "None"
    /\ UNCHANGED max_retries

Execute(op) == ExecuteStep(op) /\ UNCHANGED notSess

\* The attempt in flight ends: execute() returns its value, raises its
\* exception (not retryable, or the attempts are used up), or starts a backoff.
AttemptEndsStep ==
    /\ s_pc = "in_flight"
    /\ \E o \in Outcomes(s_op) :
        LET res == Attempt(s_op, o) IN
        /\ s_log' = Append(s_log, o)
        /\ IF res.ok
           THEN /\ s_pc' = "returned"
                /\ s_result' = res.value
                /\ sleeps' = sleeps
           ELSE IF ~IsRetryable(res.exc) \/ StopAfterAttempt(attempts, max_retries)
           THEN /\ s_pc' = "raised"
                /\ s_result' = res.exc.type
                /\ sleeps' = sleeps
           ELSE /\ s_pc' = "sleeping"
                /\ s_result' = s_result
                /\ sleeps' = sleeps + 1
    /\ UNCHANGED <<max_retries, s_op, attempts, s_auth>>

AttemptEnds == AttemptEndsStep /\ UNCHANGED notSess

\* The backoff delay is over: the next attempt starts, with the token that is
\* cached now.
BackoffEndsStep ==
    /\ s_pc = "sleeping"
    /\ s_pc' = "in_flight"
    /\ attempts' = attempts + 1
    /\ s_auth' = IF s_op \in SessionOps
                 THEN Append(s_auth,
                             AttemptHeader(s_auth,
                                           GetCachedToken(token, token_expiry,
                                                          now)))
                 ELSE s_auth
    /\ UNCHANGED <<max_retries, s_op, sleeps, s_log, s_result>>

BackoffEnds == BackoffEndsStep /\ UNCHANGED notSess

SessNext ==
    \/ \E op \in Ops : Execute(op)
    \/ AttemptEnds
    \/ BackoffEnds
    \/ Invalidate

\* The TokenManager as SkysparkClient.__aenter__ leaves it: get_token() has
\* returned and the token is cached.
TMAuthenticated ==
    /\ now = 0
    /\ cache_duration = MaxCacheDuration
    /\ token \in AuthTokens
    /\ token_expiry = now + cache_duration
    /\ lock_holder = 0
    /\ lock_waiters = <<>>
    /\ t_pc = [t \in Tasks |-> "idle"]
    /\ t_op = [t \in Tasks |-> "none"]
    /\ t_result = [t \in Tasks |-> "None"]
    /\ t_ran = [t \in Tasks |-> FALSE]
    /\ t_early = [t \in Tasks |-> FALSE]
    /\ handshakes = 0
    /\ first_expiry = NoExpiry
    /\ invalidations = 0
    /\ inv_in_flight = FALSE

-----------------------------------------------------------------------------
(* ZincEncoder *)
(***************************************************************************)
(* The Zinc codec (formats/zinc.py, models/entities.py), one call at a     *)
(* time.  A string is a sequence of characters; a character is itself      *)
(* ("a", "@", ","), one of the names below for the characters that matter  *)
(* to Zinc, or a run of ordinary characters written as one ("dis",         *)
(* "hisWrite(").                                                           *)
(*   BS backslash   DQ double quote   LF newline   CR carriage return      *)
(*   TAB tab        NUL code point 0  VT code point 11                     *)
(***************************************************************************)
MaxStrLen == 4

SeqsUpTo(S, n) == UNION {[1..k -> S] : k \in 0..n}

RECURSIVE Flatten(_)
Flatten(lists) ==
    IF lists = <<>> THEN <<>> ELSE Head(lists) \o Flatten(Tail(lists))

\* code points below 32
ControlChars == {"NUL", "VT", "LF", "CR", "TAB"}
EscapeAlphabet == {"BS", "DQ", "LF", "CR", "TAB", "NUL", "VT", "n", "a"}

\* str.replace(c, rep)
Replace(s, c, rep) ==
    Flatten([i \in 1..Len(s) |-> IF s[i] = c THEN rep ELSE <<s[i]>>])

\* the `''.join(c for c in s if ord(c) >= 32 or c in '\t\n\r')` of line 40
DropControl(s) ==
    SelectSeq(s, LAMBDA c : c \notin ControlChars \/ c \in {"TAB", "LF", "CR"})

\* _escape_zinc_string that replaces the backslash last
EscapeZincString_BackslashLast(s) ==
    LET s2 == Replace(s, "DQ", <<"BS", "DQ">>)
        s3 == Replace(s2, "LF", <<"BS", "n">>)
        s4 == Replace(s3, "CR", <<"BS", "r">>)
        s5 == Replace(s4, "TAB", <<"BS", "t">>)
        s1 == Replace(s5, "BS", <<"BS", "BS">>)
        s6 == Replace(s1, "NUL", <<>>)
    IN  DropControl(s6)

\* _escape_zinc_string that leaves the other control characters in
EscapeZincString_KeepsControl(s) ==
    LET s1 == Replace(s, "BS", <<"BS", "BS">>)
        s2 == Replace(s1, "DQ", <<"BS", "DQ">>)
        s3 == Replace(s2, "LF", <<"BS", "n">>)
        s4 == Replace(s3, "CR", <<"BS", "r">>)
        s5 == Replace(s4, "TAB", <<"BS", "t">>)
    IN  Replace(s5, "NUL", <<>>)

\* _escape_zinc_string: the replacements in the order of lines 29-40
EscapeZincString(s) ==
    LET s1 == Replace(s, "BS", <<"BS", "BS">>)
        s2 == Replace(s1, "DQ", <<"BS", "DQ">>)
        s3 == Replace(s2, "LF", <<"BS", "n">>)
        s4 == Replace(s3, "CR", <<"BS", "r">>)
        s5 == Replace(s4, "TAB", <<"BS", "t">>)
        s6 == Replace(s5, "NUL", <<>>)
    IN  DropControl(s6)

\* The tag names of the model and their code points, by which Python's
\* sorted() orders them.
CodePoints ==
    [Zone |-> <<90, 111, 110, 101>>,
     dis |-> <<100, 105, 115>>,
     equipRef |-> <<101, 113, 117, 105, 112, 82, 101, 102>>,
     id |-> <<105, 100>>,
     kind |-> <<107, 105, 110, 100>>,
     point |-> <<112, 111, 105, 110, 116>>,
     refName |-> <<114, 101, 102, 78, 97, 109, 101>>,
     sensor |-> <<115, 101, 110, 115, 111, 114>>,
     site |-> <<115, 105, 116, 101>>,
     siteRef |-> <<115, 105, 116, 101, 82, 101, 102>>,
     tz |-> <<116, 122>>]

\* str.__lt__: the first differing code point decides, a proper prefix is less
RECURSIVE LexLess(_, _)
LexLess(a, b) ==
    IF b = <<>> THEN FALSE
    ELSE IF a = <<>> THEN TRUE
    ELSE IF Head(a) # Head(b) THEN Head(a) < Head(b)
    ELSE LexLess(Tail(a), Tail(b))

\* sorted(all_tags) that keeps some other order of the tags
RECURSIVE Sorted_Descending(_)
Sorted_Descending(tags) ==
    IF tags = {} THEN <<>>
    ELSE LET last == CHOOSE x \in tags :
                        \A y \in tags \ {x} : LexLess(CodePoints[y], CodePoints[x])
         IN  <<last>> \o Sorted_Descending(tags \ {last})

\* sorted(all_tags)
RECURSIVE Sorted(_)
Sorted(tags) ==
    IF tags = {} THEN <<>>
    ELSE LET first == CHOOSE x \in tags :
                        \A y \in tags \ {x} : LexLess(CodePoints[x], CodePoints[y])
         IN  <<first>> \o Sorted(tags \ {first})

\* Python values: a str is its characters; a number or a bool is what str()
\* prints for it.
Str(chars) == [t |-> "str", s |-> chars]
Num(text) == [t |-> "num", s |-> <<text>>]
Bool(text) == [t |-> "bool", s |-> <<text>>]
Marker == Str(<<"m", ":">>)
Ref(id) == Str(<<"@">> \o id)

\* str_strip_whitespace=True of the models: leading and trailing whitespace
\* is removed when the entity is built
Whitespace == {"LF", "CR", "TAB", " "}
RECURSIVE Strip(_)
Strip(s) ==
    IF s = <<>> THEN s
    ELSE IF Head(s) \in Whitespace THEN Strip(Tail(s))
    ELSE IF s[Len(s)] \in Whitespace THEN Strip(SubSeq(s, 1, Len(s) - 1))
    ELSE s

\* Site(id=..., dis=..., refName="rn", tags=...) and Point(id=..., dis=...,
\* refName="rn", siteRef="s", equipRef="e", kind="Number",
\* markerTags=["sensor"], kvTags=...): id <<>> is None; tags maps the custom
\* tag names to their values (NoTag for a tag not given).
Site(id, dis, tags) ==
    [entity |-> "site", id |-> id, dis |-> Strip(dis), tags |-> tags]
Point(id, dis, tags) ==
    [entity |-> "point", id |-> id, dis |-> Strip(dis), tags |-> tags]

\* dict.update(): the later dict wins
Update(d, e) ==
    [k \in DOMAIN d \cup DOMAIN e |-> IF k \in DOMAIN e THEN e[k] ELSE d[k]]

\* a custom tag the entity was not given
NoTag == [t |-> "absent", s |-> <<>>]

\* serialize_to_zinc of Site and of Point (to_zinc_dict): the fixed tags, id
\* when the entity has one, then the custom tags over them
ToZincDict(e) ==
    LET idTag == [k \in (IF e.id # <<>> THEN {"id"} ELSE {}) |-> Ref(e.id)]
        custom == [k \in {c \in DOMAIN e.tags : e.tags[c] # NoTag} |-> e.tags[k]]
        fixed == IF e.entity = "site"
                 THEN [dis |-> Str(e.dis), refName |-> Str(<<"rn">>),
                       tz |-> Str(<<"UTC">>), site |-> Marker]
                 ELSE [dis |-> Str(e.dis), refName |-> Str(<<"rn">>),
                       siteRef |-> Ref(<<"s">>), equipRef |-> Ref(<<"e">>),
                       kind |-> Str(<<"Number">>), tz |-> Str(<<"UTC">>),
                       point |-> Marker, sensor |-> Marker]
    IN  Update(Update(fixed, idTag), custom)

\* what a call ended with: the value returned or the exception raised, and
\* whether a request was sent
Returned(v) == [raised |-> "None", value |-> v, posted |-> FALSE]
RaisedIn(e) == [raised |-> e, value |-> <<>>, posted |-> FALSE]

\* ZincEncoder._encode_value, for the str, bool and number values of the
\* model: "" is the empty cell, "m:" the marker, a string that starts with
\* "@" goes out as it is, any other string is escaped and quoted.
EncodeValue(v) ==
    IF v = Str(<<>>) THEN <<>>
    ELSE IF v = Marker THEN <<"M">>
    ELSE IF v.t = "str"
         THEN IF v.s[1] = "@" THEN v.s
              ELSE <<"DQ">> \o EscapeZincString(v.s) \o <<"DQ">>
    ELSE IF v.t = "bool" THEN IF v.s = <<"True">> THEN <<"T">> ELSE <<"F">>
    ELSE v.s

\* ", ".join(cells)
RECURSIVE Join(_)
Join(cells) ==
    IF cells = <<>> THEN <<>>
    ELSE IF Len(cells) = 1 THEN cells[1]
    ELSE cells[1] \o <<",", " ">> \o Join(Tail(cells))

\* the tags of the entity kind that every grid lists
RequiredTags(entity) ==
    IF entity = "site" THEN {"dis", "tz", "refName", "site"}
    ELSE {"dis", "siteRef", "equipRef", "kind", "tz", "refName", "point"}

\* all_tags: the required tags and every key of every record, without "id"
\* for add
AllTags(op, entities) ==
    LET keys == RequiredTags(entities[1].entity)
                \cup UNION {DOMAIN ToZincDict(entities[i]) :
                            i \in 1..Len(entities)}
    IN  IF op = "add" THEN keys \ {"id"} ELSE keys \cup {"id"}

\* one data row: zinc_dict.get(tag, "") for every tag of the header, encoded
Row(e, header) ==
    LET d == ToZincDict(e) IN
    Join([k \in 1..Len(header) |->
            EncodeValue(IF header[k] \in DOMAIN d THEN d[header[k]]
                        ELSE Str(<<>>))])
    \o <<"LF">>

\* encode_commit_add_sites / _equipment / _points and
\* encode_commit_update_points up to its rows: the version line, the header
\* line and one row per record ("" for no records)
CommitGrid(op, entities) ==
    IF entities = <<>> THEN <<>>
    ELSE LET header == Sorted(AllTags(op, entities)) IN
         <<"ver:", "DQ", "3.0", "DQ", " ", "commit:", "DQ", op, "DQ", "LF">>
         \o Join([k \in 1..Len(header) |-> <<header[k]>>]) \o <<"LF">>
         \o Flatten([i \in 1..Len(entities) |-> Row(entities[i], header)])

EncodeCommitAdd(entities) == Returned(CommitGrid("add", entities))

\* encode_commit_update_points that leaves out the records without an id
EncodeCommitUpdatePoints_SkipsMissing(points) ==
    Returned(CommitGrid("update", SelectSeq(points, LAMBDA q : q.id # <<>>)))

\* encode_commit_update_points: `if not point.id: raise ValueError` in the
\* loop over the rows
EncodeCommitUpdatePoints(points) ==
    IF \E i \in 1..Len(points) : points[i].id = <<>>
    THEN RaisedIn("ValueError")
    ELSE Returned(CommitGrid("update", points))

CodecIdle ==
    /\ z_fn = "none"
    /\ z_out = Returned(<<>>)

Call(fn, arg) == [fn |-> fn, arg |-> arg]

CodecParked == CodecIdle /\ z_in = Call("none", <<>>)

\* val_str of encode_his_write_rpc: str(value).lower() for a bool, the
\* escaped string between double quotes for a str, str(value) otherwise
ValStr(v) ==
    IF v.t = "bool" THEN IF v.s = <<"True">> THEN <<"true">> ELSE <<"false">>
    ELSE IF v.t = "str"
         THEN <<"DQ">> \o EscapeZincString(v.s) \o <<"DQ">>
    ELSE v.s

\* A timestamp's tzinfo is "None" (a naive datetime) or the name its tzname()
\* gives.  What pydantic makes of the timestamp argument: a datetime is taken
\* as it is, an ISO 8601 string is parsed, and its suffix ("Z", an offset, or
\* none) gives the tzinfo.
NaiveTzinfo == "None"
Tzinfos == {NaiveTzinfo, "UTC", "UTC-05:00"}
TimestampArgs ==
    {[form |-> "datetime", t |-> 1, zone |-> z] : z \in Tzinfos}
    \cup {[form |-> "str", t |-> 1, zone |-> z] : z \in {"", "Z", "-05:00"}}
ParseTimestamp(arg) ==
    IF arg.form = "datetime" THEN arg.zone
    ELSE IF arg.zone = "" THEN NaiveTzinfo
    ELSE IF arg.zone = "Z" THEN "UTC"
    ELSE "UTC" \o arg.zone

\* a HistorySample whose timestamp is not validated
NewHistorySample_AcceptsNaive(pointId, timestamp, value) ==
    Returned([point_id |-> pointId, timestamp |-> timestamp.t,
              tzinfo |-> ParseTimestamp(timestamp), value |-> value])

\* HistorySample(pointId=..., timestamp=..., value=...): the field validator
\* validate_timestamp_has_tz raises for a timestamp without tzinfo, which
\* pydantic reports as a ValidationError of the constructor.
NewHistorySample(pointId, timestamp, value) ==
    IF ParseTimestamp(timestamp) = NaiveTzinfo THEN RaisedIn("ValidationError")
    ELSE Returned([point_id |-> pointId, timestamp |-> timestamp.t,
                   tzinfo |-> ParseTimestamp(timestamp), value |-> value])

\* tz_name of encode_his_write_rpc: tzinfo.tzname(timestamp), or "UTC" for a
\* timestamp without tzinfo
TzNameOfSample(sample) ==
    IF sample.tzinfo # NaiveTzinfo THEN sample.tzinfo ELSE "UTC"

\* One row of encode_his_write_rpc:
\* "hisWrite({ts: parseDateTime(\"<iso>\", \"YYYY-MM-DDThh:mm:ssz\",
\* \"<tz_name>\"), val: <val_str>}, @<point_id>)" and a newline.
HisWriteRow(sample) ==
    <<"DQ", "hisWrite({ts: parseDateTime(",
      "BS", "DQ", "T", ToString(sample.timestamp), "BS", "DQ", ",", " ",
      "BS", "DQ", "YYYY-MM-DDThh:mm:ssz", "BS", "DQ", ",", " ",
      "BS", "DQ", TzNameOfSample(sample), "BS", "DQ", "),", " ", "val: ">>
    \o ValStr(sample.value)
    \o <<"},", " ", "@", sample.point_id, ")", "DQ", "LF">>

\* ZincEncoder.encode_his_write_rpc: "" for no samples, else the version
\* line, the expr header and one row per sample
EncodeHisWriteRpc(samples) ==
    IF samples = <<>> THEN <<>>
    ELSE <<"ver:", "DQ", "3.0", "DQ", "LF", "expr", "LF">>
         \o Flatten([i \in 1..Len(samples) |-> HisWriteRow(samples[i])])

\* Zone names: of the names SkySpark sends, pytz.timezone() knows some ("UTC",
\* "America/New_York") and raises UnknownTimeZoneError for the others (the
\* city-only "New_York", the empty string).
ZoneNames == {"UTC", "America/New_York", "New_York"}
PytzKnows(name) == name \in {"UTC", "America/New_York"}

\* A datetime dict {"val": "<iso>[ <zone>]"[, "tz": <tz>]}: iso is the wall
\* time with its UTC offset; zone is the trailing name in val ("none" without
\* one); tz is the tz field ("absent" without the key).
DatetimeDict(zone, tz) ==
    [wall |-> "18:30", offset |-> "-04:00", zone |-> zone, tz |-> tz]

\* tz_name of _parse_zinc_datetime: value.get("tz", "UTC"), replaced by the
\* trailing name of val only when it is falsy
TzName(value) ==
    LET tz_name == IF value.tz = "absent" THEN "UTC" ELSE value.tz IN
    IF value.zone # "none" /\ tz_name = "" THEN value.zone ELSE tz_name

\* _parse_zinc_datetime: the wall time of val localized in the zone named
\* tz_name when pytz knows it, else the instant as parsed, with its offset
ParseZincDatetime(value) ==
    LET tz_name == TzName(value) IN
    IF PytzKnows(tz_name)
    THEN [wall |-> value.wall, zone |-> tz_name]
    ELSE [wall |-> value.wall, zone |-> value.offset]

-----------------------------------------------------------------------------
(* HistoryOperations *)
(***************************************************************************)
(* One call of write_samples or write_samples_chunked                      *)
(* (operations/history_ops.py).  A sample is a HistorySample: point_id,    *)
(* timestamp, value.  write_samples_chunked groups the samples by point,   *)
(* sorts each point's samples by timestamp, cuts the result into chunks    *)
(* and runs one write_samples task per chunk behind a semaphore; what      *)
(* post_zinc does for a write is one of PostZincResults.                   *)
(***************************************************************************)
MaxSamples == 4
MaxTimestamp == 2
MaxChunkSize == 2
MaxMaxConcurrent == 2

Points == {"p1", "p2"}
Values == {"a", "b"}
Samples == [point_id : Points, timestamp : 1..MaxTimestamp, value : Values]

\* the keys of by_point, in insertion order: the points by first occurrence
RECURSIVE PointOrder(_)
PointOrder(samples) ==
    IF samples = <<>> THEN <<>>
    ELSE LET p == Head(samples).point_id IN
         <<p>> \o PointOrder(SelectSeq(Tail(samples),
                                       LAMBDA x : x.point_id # p))

\* by_point[p]: the samples of point p, in input order
ByPoint(samples, p) == SelectSeq(samples, LAMBDA x : x.point_id = p)

\* list.sort(key=timestamp) that leaves the list as it is
SortByTimestamp_Unsorted(list) == list

\* list.sort(key=lambda s: s.timestamp): ascending and stable
RECURSIVE SortByTimestamp(_)
SortByTimestamp(list) ==
    IF list = <<>> THEN <<>>
    ELSE LET x == Head(list)
             rest == SortByTimestamp(Tail(list))
         IN  SelectSeq(rest, LAMBDA y : y.timestamp < x.timestamp)
             \o <<x>>
             \o SelectSeq(rest, LAMBDA y : y.timestamp >= x.timestamp)

\* sorted_samples: each point's sorted samples, point after point
SortedSamples(samples) ==
    LET order == PointOrder(samples) IN
    Flatten([k \in 1..Len(order) |->
                SortByTimestamp(ByPoint(samples, order[k]))])

\* an islice that takes one item more
Islice_OneMore(items, size) ==
    SubSeq(items, 1, IF size + 1 < Len(items) THEN size + 1 ELSE Len(items))

\* islice(iterator, size): the next `size` items, fewer when they run out
Islice(items, size) ==
    SubSeq(items, 1, IF size < Len(items) THEN size ELSE Len(items))

\* _chunk_list that yields full chunks only
RECURSIVE ChunkList_FullOnly(_, _)
ChunkList_FullOnly(items, size) ==
    IF size = 0 \/ Len(items) < size THEN <<>>
    ELSE <<SubSeq(items, 1, size)>>
         \o ChunkList_FullOnly(SubSeq(items, size + 1, Len(items)), size)

\* _chunk_list: `while chunk := list(islice(iterator, size)): yield chunk`;
\* an empty slice (no items left, or size 0) ends the loop.
RECURSIVE ChunkList(_, _)
ChunkList(items, size) ==
    LET chunk == Islice(items, size) IN
    IF chunk = <<>> THEN <<>>
    ELSE <<chunk>>
         \o ChunkList(SubSeq(items, Len(chunk) + 1, Len(items)), size)

\* What SessionManager.post_zinc("evalAll", grid) ends with: the values it
\* returns ("json": a grid without meta.err, "json_err": a grid whose meta
\* carries err, "text": the {"text": ...} of a body that is not JSON) and the
\* exceptions it raises.
PostZincReturns == {"json", "json_err", "text"}
PostZincRaises == {"ServerError", "RequestError", "TimeoutException"}
PostZincResults == PostZincReturns \cup PostZincRaises

\* HistoryWriteResult(success, samplesWritten, error), and an exception that
\* leaves a coroutine
WriteResult(ok, n, err) ==
    [kind |-> "result", success |-> ok, samplesWritten |-> n, error |-> err]
Raised(type) ==
    [kind |-> "exception", success |-> FALSE, samplesWritten |-> 0,
     error |-> type]

\* write_samples that sends the empty list too
SendsRequest_Always(samples) == TRUE

\* write_samples: `if not samples: return HistoryWriteResult(success=True,
\* samplesWritten=0)` comes before the grid is encoded and posted
SendsRequest(samples) == samples # <<>>

\* the samples as the encoder takes them: a value of the pipeline is a str,
\* a timestamp is in UTC
HistorySamples(samples) ==
    [k \in 1..Len(samples) |->
        [point_id |-> samples[k].point_id,
         timestamp |-> samples[k].timestamp,
         tzinfo |-> "UTC",
         value |-> Str(<<samples[k].value>>)]]

PostZinc(endpoint, grid) == [endpoint |-> endpoint, grid |-> grid]

\* _write_samples_rpc, up to its await: the grid it encodes and the endpoint
\* it posts it to
WriteSamplesRpcRequest(samples) ==
    PostZinc("evalAll", EncodeHisWriteRpc(HistorySamples(samples)))

\* _write_samples_rpc: what it returns or raises for what post_zinc did
WriteSamplesRpc(samples, post) ==
    IF post \in PostZincRaises THEN Raised(post)
    ELSE IF post = "json_err" THEN Raised("HistoryWriteError")
    ELSE WriteResult(TRUE, Len(samples), "None")

\* a _write_samples_http with a batch endpoint of its own
WriteSamplesHttpRequest_OwnEndpoint(samples) ==
    PostZinc("hisWrite", EncodeHisWriteRpc(HistorySamples(samples)))

\* _write_samples_http: `return await self._write_samples_rpc(samples)`
WriteSamplesHttpRequest(samples) == WriteSamplesRpcRequest(samples)
WriteSamplesHttp(samples, post) == WriteSamplesRpc(samples, post)

\* the try block of write_samples: `if use_rpc: return await
\* self._write_samples_rpc(samples)`, else _write_samples_http
WriteSamplesRequest(rpc, samples) ==
    IF rpc THEN WriteSamplesRpcRequest(samples)
    ELSE WriteSamplesHttpRequest(samples)
WriteSamplesTry(rpc, samples, post) ==
    IF rpc THEN WriteSamplesRpc(samples, post)
    ELSE WriteSamplesHttp(samples, post)

\* write_samples whose failures leave it as exceptions
WriteSamples_Propagates(samples, post) ==
    IF ~SendsRequest(samples) THEN WriteResult(TRUE, 0, "None")
    ELSE WriteSamplesTry(use_rpc, samples, post)

\* write_samples, called with use_rpc: the early return for no samples, and
\* `except Exception as e` turning every failure into a result with
\* error=str(e)
WriteSamples(samples, post) ==
    IF ~SendsRequest(samples) THEN WriteResult(TRUE, 0, "None")
    ELSE LET r == WriteSamplesTry(use_rpc, samples, post) IN
         IF r.kind = "exception" THEN WriteResult(FALSE, 0, r.error) ELSE r

\* a semaphore that admits every task
GateOpen_Unbounded(in_flight, limit) == TRUE

\* asyncio.Semaphore(max_concurrent).acquire() returns without waiting
GateOpen(in_flight, limit) == in_flight < limit

InFlight(states) == {i \in DOMAIN states : states[i] = "writing"}
Pending(states) == {i \in DOMAIN states : states[i] = "pending"}

\* The next task the semaphore lets in: tasks start, and waiters are woken,
\* in the order gather() was given them.
NextAdmitted(states) ==
    CHOOSE i \in Pending(states) : \A j \in Pending(states) : i <= j

\* a failed write whose task never ends
StatesAfterWrite_FailureNeverEnds(states, i, r) ==
    [j \in DOMAIN states |->
        IF j # i THEN states[j]
        ELSE IF r.success THEN "finished" ELSE "stuck"]

\* a failed write that cancels the writes not yet started
StatesAfterWrite_CancelsPending(states, i, r) ==
    [j \in DOMAIN states |->
        IF j = i THEN "finished"
        ELSE IF ~r.success /\ states[j] = "pending" THEN "cancelled"
        ELSE states[j]]

\* process_chunk(i) ends: gather(return_exceptions=True) keeps every other
\* task as it is, whatever this one ended with
StatesAfterWrite(states, i, r) ==
    [j \in DOMAIN states |-> IF j = i THEN "finished" ELSE states[j]]

\* the results in the order the writes ended
ChunkResults_ByCompletion(outcomes, order) ==
    [k \in 1..Len(order) |->
        LET r == outcomes[order[k]] IN
        IF r.kind = "exception" THEN WriteResult(FALSE, 0, r.error) ELSE r]

\* The loop over gather()'s list, which is in the order of the tasks given to
\* it: an exception becomes a failed result, a HistoryWriteResult is kept.
ChunkResults(outcomes, order) ==
    [k \in 1..Len(outcomes) |->
        LET r == outcomes[k] IN
        IF r.kind = "exception" THEN WriteResult(FALSE, 0, r.error) ELSE r]

NoOutcome == [kind |-> "none", success |-> FALSE, samplesWritten |-> 0,
              error |-> "None"]

\* before the call, for the arguments given
PipeIdle ==
    /\ w_mode = "none"
    /\ w_pc = "idle"
    /\ chunks = <<>>
    /\ c_state = <<>>
    /\ c_post = <<>>
    /\ c_outcome = <<>>
    /\ done_order = <<>>
    /\ results = <<>>
    /\ encodes = 0
    /\ posts = 0
    /\ use_rpc = TRUE
    /\ requests = <<>>

\* a family of inputs of every length: two points alternating, each point's
\* timestamps cycling downwards
InputOfLength(n) ==
    [k \in 1..n |->
        [point_id |-> IF k % 2 = 1 THEN "p1" ELSE "p2",
         timestamp |-> (((n - k) \div 2) % MaxTimestamp) + 1,
         value |-> "a"]]

PipeInit ==
    /\ w_samples \in {InputOfLength(n) : n \in 0..MaxSamples}
    /\ chunk_size \in 0..MaxChunkSize
    /\ max_concurrent \in 1..MaxMaxConcurrent
    /\ PipeIdle

\* every input, for the synchronous part of write_samples_chunked
ChunkingInit ==
    /\ w_samples \in SeqsUpTo(Samples, MaxSamples)
    /\ chunk_size \in 0..MaxChunkSize
    /\ max_concurrent = 1
    /\ PipeIdle

PipeParked ==
    /\ w_samples = <<>>
    /\ chunk_size = 1
    /\ max_concurrent = 1
    /\ PipeIdle

\* write_samples(samples, use_rpc) is called: without samples it returns at
\* once; else it encodes the grid and awaits post_zinc.
CallWriteSamplesStep ==
    /\ w_pc = "idle"
    /\ w_mode' = "write_samples"
    /\ use_rpc' \in BOOLEAN
    /\ IF SendsRequest(w_samples)
       THEN /\ w_pc' = "running"
            /\ chunks' = <<w_samples>>
            /\ c_state' = <<"writing">>
            /\ c_post' = <<"none">>
            /\ c_outcome' = <<NoOutcome>>
            /\ results' = results
            /\ encodes' = encodes + 1
            /\ posts' = posts + 1
            /\ requests' = Append(requests,
                                  WriteSamplesRequest(use_rpc', w_samples))
       ELSE /\ w_pc' = "done"
            /\ results' = <<WriteSamples(w_samples, "none")>>
            /\ UNCHANGED <<chunks, c_state, c_post, c_outcome, encodes, posts,
                           requests>>
    /\ UNCHANGED <<w_samples, chunk_size, max_concurrent, done_order>>

CallWriteSamples == CallWriteSamplesStep /\ UNCHANGED notPipe

\* write_samples_chunked(samples, chunk_size, max_concurrent) is called:
\* without samples it returns []; else it sorts, chunks, and hands one
\* process_chunk task per chunk to gather().
CallWriteSamplesChunked ==
    /\ w_pc = "idle"
    /\ w_mode' = "write_samples_chunked"
    /\ IF w_samples = <<>>
       THEN /\ w_pc' = "done"
            /\ UNCHANGED <<chunks, c_state, c_post, c_outcome>>
       ELSE LET cs == ChunkList(SortedSamples(w_samples), chunk_size) IN
            /\ w_pc' = "running"
            /\ chunks' = cs
            /\ c_state' = [i \in 1..Len(cs) |-> "pending"]
            /\ c_post' = [i \in 1..Len(cs) |-> "none"]
            /\ c_outcome' = [i \in 1..Len(cs) |-> NoOutcome]
    /\ UNCHANGED <<w_samples, chunk_size, max_concurrent, done_order, results,
                   encodes, posts, use_rpc, requests>>
    /\ UNCHANGED notPipe

\* A process_chunk task passes `async with semaphore` and its
\* write_samples(chunk) runs to the await of post_zinc (a chunk is never
\* empty; use_rpc has its default).
CanAdmit ==
    /\ w_pc = "running"
    /\ w_mode = "write_samples_chunked"
    /\ Pending(c_state) # {}
    /\ GateOpen(Cardinality(InFlight(c_state)), max_concurrent)

Admit ==
    /\ CanAdmit
    /\ c_state' = [c_state EXCEPT ![NextAdmitted(c_state)] = "writing"]
    /\ encodes' = encodes + 1
    /\ posts' = posts + 1
    /\ requests' = Append(requests,
                          WriteSamplesRequest(use_rpc,
                                              chunks[NextAdmitted(c_state)]))
    /\ UNCHANGED <<w_samples, chunk_size, max_concurrent, w_mode, w_pc, chunks,
                   c_post, c_outcome, done_order, results, use_rpc>>
    /\ UNCHANGED notPipe

\* writes that end in the order they were started in
WriteEndsWith_InAdmissionOrder(i, post) ==
    /\ w_pc = "running"
    /\ i \in DOMAIN c_state
    /\ c_state[i] = "writing"
    /\ \A j \in InFlight(c_state) : i <= j
    /\ LET r == WriteSamples(chunks[i], post) IN
        /\ c_post' = [c_post EXCEPT ![i] = post]
        /\ c_outcome' = [c_outcome EXCEPT ![i] = r]
        /\ c_state' = StatesAfterWrite(c_state, i, r)
    /\ done_order' = Append(done_order, i)
    /\ UNCHANGED <<w_samples, chunk_size, max_concurrent, w_mode, w_pc, chunks,
                   results, encodes, posts, use_rpc, requests>>

\* post_zinc ends for the write of chunk i: write_samples returns its result
\* and, in a process_chunk task, the semaphore is released.
WriteEndsWith(i, post) ==
    /\ w_pc = "running"
    /\ i \in DOMAIN c_state
    /\ c_state[i] = "writing"
    /\ LET r == WriteSamples(chunks[i], post) IN
        /\ c_post' = [c_post EXCEPT ![i] = post]
        /\ c_outcome' = [c_outcome EXCEPT ![i] = r]
        /\ c_state' = StatesAfterWrite(c_state, i, r)
    /\ done_order' = Append(done_order, i)
    /\ UNCHANGED <<w_samples, chunk_size, max_concurrent, w_mode, w_pc, chunks,
                   results, encodes, posts, use_rpc, requests>>

WriteEnds(i) ==
    /\ \E post \in PostZincResults : WriteEndsWith(i, post)
    /\ UNCHANGED notPipe

\* Every write has ended: write_samples returns (or raises) what its write
\* ended with; write_samples_chunked returns the list built from gather()'s.
WriteReturns ==
    /\ w_pc = "running"
    /\ \A i \in DOMAIN c_state : c_state[i] \in {"finished", "cancelled"}
    /\ w_pc' = "done"
    /\ results' = IF w_mode = "write_samples" THEN <<c_outcome[1]>>
                  ELSE ChunkResults(c_outcome, done_order)
    /\ UNCHANGED <<w_samples, chunk_size, max_concurrent, w_mode, chunks,
                   c_state, c_post, c_outcome, done_order, encodes, posts,
                   use_rpc, requests>>
    /\ UNCHANGED notPipe

PipeNext ==
    \/ CallWriteSamples
    \/ CallWriteSamplesChunked
    \/ Admit
    \/ \E i \in 1..MaxSamples : WriteEnds(i)
    \/ WriteReturns

ChunkingNext == CallWriteSamplesChunked

-----------------------------------------------------------------------------
(* A history write over the SessionManager *)
(***************************************************************************)
(* write_samples with the post_zinc it awaits: the write's post_zinc is    *)
(* one RetryPolicy.execute of the SessionManager, and what it returns or   *)
(* raises is what the write ends with.                                     *)
(***************************************************************************)
WriteInit ==
    /\ w_samples \in {InputOfLength(n) : n \in 0..MaxSamples}
    /\ chunk_size = 1
    /\ max_concurrent = 1
    /\ PipeIdle

\* write_samples is called and, with samples, runs into post_zinc("evalAll",
\* grid) up to the await of the first attempt.
WriteCallsPostZinc ==
    /\ CallWriteSamplesStep
    /\ IF SendsRequest(w_samples) THEN ExecuteStep("post_zinc")
       ELSE UNCHANGED sessVars
    /\ UNCHANGED <<authVars, tmVars, codecVars, clientVars>>

\* An attempt of the write's post_zinc ends: a backoff starts, or post_zinc
\* returns or raises and _write_samples_rpc and write_samples run to their
\* end with it.
WriteAttemptEnds ==
    /\ AttemptEndsStep
    /\ IF s_pc' = "sleeping" THEN UNCHANGED pipeVars
       ELSE WriteEndsWith(1, s_result')
    /\ UNCHANGED <<authVars, tmVars, codecVars, clientVars>>

WriteNext ==
    \/ WriteCallsPostZinc
    \/ WriteAttemptEnds
    \/ BackoffEnds
    \/ WriteReturns

-----------------------------------------------------------------------------
(* SkysparkClient *)
(***************************************************************************)
(* One `async with SkysparkClient(...)` (client.py): __aenter__ creates    *)
(* two httpx.AsyncClients, runs the handshake through the TokenManager     *)
(* (the task in __aenter__ is task 1) and builds the SessionManager; the   *)
(* body issues API requests; __aexit__ closes both clients.  wire is the   *)
(* set of (httpx client, request) pairs sent so far: a retried attempt     *)
(* goes out on the client of the first one.                                *)
(***************************************************************************)
HandshakeRequests == {"HELLO", "CLIENT-FIRST", "CLIENT-FINAL"}

\* the two httpx.AsyncClient objects __aenter__ creates, in order
NewAuthSession == "client1"
NewApiSession == "client2"

\* ScramAuthenticator(..., session=self._auth_session)
SessionOfAuthenticator(authS, apiS) == authS

\* a SessionManager given the session of the handshake
SessionOfManager_Shared(authS, apiS) == authS

\* SessionManager(session=self._api_session, ...)
SessionOfManager(authS, apiS) == apiS

Sent(client, request) == [client |-> client, request |-> request]

\* __init__: nothing is created before __aenter__
ClientInit ==
    /\ cl_pc = "constructed"
    /\ auth_session = "None"
    /\ api_session = "None"
    /\ open_clients = {}
    /\ authenticator_session = "None"
    /\ manager_session = "None"
    /\ wire = {}

ClientParked == ClientInit

\* __aenter__ is called: both httpx clients and the authenticator are
\* created, and get_token() runs authenticate() up to the HELLO request.
Enter ==
    /\ cl_pc = "constructed"
    /\ cl_pc' = "entering"
    /\ auth_session' = NewAuthSession
    /\ api_session' = NewApiSession
    /\ open_clients' = open_clients \cup {NewAuthSession, NewApiSession}
    /\ authenticator_session' =
            SessionOfAuthenticator(NewAuthSession, NewApiSession)
    /\ GetTokenCall(1)
    /\ AuthenticateStep
    /\ wire' = wire \cup {Sent(authenticator_session', "HELLO")}
    /\ UNCHANGED manager_session
    /\ UNCHANGED <<sessVars, pipeVars, codecVars>>

\* authenticate() raised inside __aenter__: the lock is released and the
\* error leaves __aenter__; __aexit__ is not run for it.
EnterRaises ==
    /\ AuthRaisesIn(1)
    /\ cl_pc' = "failed"
    /\ UNCHANGED <<auth_session, api_session, open_clients,
                   authenticator_session, manager_session, wire>>

\* A handshake response arrives in __aenter__ and the next request, if any,
\* is sent on the authenticator's session.
EnterHandshakeResponse ==
    /\ cl_pc = "entering"
    /\ a_pc \in {"hello", "client_first"}
    /\ \/ HelloResponseStep
       \/ ClientFirstResponseStep
    /\ IF a_pc' = "raised"
       THEN EnterRaises
       ELSE /\ wire' = wire \cup {Sent(authenticator_session,
                                       a_sent'[Len(a_sent')].phase)}
            /\ UNCHANGED <<cl_pc, auth_session, api_session, open_clients,
                           authenticator_session, manager_session>>
            /\ UNCHANGED tmVars
    /\ UNCHANGED <<sessVars, pipeVars, codecVars>>

\* The CLIENT-FINAL response arrives in __aenter__: the token is cached,
\* the SessionManager and the operations are built, __aenter__ returns.
EnterFinalResponse ==
    /\ cl_pc = "entering"
    /\ ClientFinalResponseStep
    /\ IF a_pc' = "raised"
       THEN EnterRaises
       ELSE /\ AuthReturnsWith(1, a_result')
            /\ manager_session' = SessionOfManager(auth_session, api_session)
            /\ cl_pc' = "entered"
            /\ UNCHANGED <<auth_session, api_session, open_clients,
                           authenticator_session, wire>>
    /\ UNCHANGED <<sessVars, pipeVars, codecVars>>

\* An operation of the client calls post_zinc, get_json or post_json of the
\* SessionManager, which sends the first attempt on its session.
ClientRequest(op) ==
    /\ cl_pc = "entered"
    /\ ExecuteStep(op)
    /\ wire' = wire \cup {Sent(manager_session, op)}
    /\ UNCHANGED <<cl_pc, auth_session, api_session, open_clients,
                   authenticator_session, manager_session>>
    /\ UNCHANGED <<authVars, tmVars, pipeVars, codecVars>>

\* The backoff is over: the next attempt goes out on the manager's session.
ClientRetry ==
    /\ BackoffEndsStep
    /\ wire' = wire \cup {Sent(manager_session, s_op)}
    /\ UNCHANGED <<cl_pc, auth_session, api_session, open_clients,
                   authenticator_session, manager_session>>
    /\ UNCHANGED <<authVars, tmVars, pipeVars, codecVars>>

\* __aexit__, after the operations of the body have ended: both httpx
\* clients are closed.
Exit ==
    /\ cl_pc = "entered"
    /\ s_pc \notin {"in_flight", "sleeping"}
    /\ cl_pc' = "closed"
    /\ open_clients' = open_clients \ {auth_session, api_session}
    /\ UNCHANGED <<auth_session, api_session, authenticator_session,
                   manager_session, wire>>
    /\ UNCHANGED <<authVars, tmVars, sessVars, pipeVars, codecVars>>

ClientNext ==
    \/ Enter
    \/ EnterHandshakeResponse
    \/ EnterFinalResponse
    \/ \E op \in SessionOps : ClientRequest(op)
    \/ AttemptEnds
    \/ ClientRetry
    \/ Exit
    \/ Tick

-----------------------------------------------------------------------------
(* Calls of the Zinc codec *)
MaxEntityStrLen == 2

\* the free text of the entities: display names and custom tag values
EntityAlphabet == {"@", "LF", ",", "DQ", "a"}
EntityStrings == SeqsUpTo(EntityAlphabet, MaxEntityStrLen)
ZoneValues == {NoTag, Str(<<"a">>), Str(<<"@", "LF">>), Num("7")}

SiteInputs ==
    {Site(id, d, [Zone |-> z]) :
        id \in {<<>>, <<"s1">>}, d \in EntityStrings, z \in ZoneValues}
SecondSites ==
    {Site(<<>>, <<"b">>, [Zone |-> NoTag]),
     Site(<<"s2">>, <<"b">>, [Zone |-> Str(<<"b">>)])}
SiteLists ==
    {<<>>} \cup {<<e>> : e \in SiteInputs}
    \cup {<<e, f>> : e \in SiteInputs, f \in SecondSites}
    \cup {<<f, e>> : e \in SiteInputs, f \in SecondSites}

PointInputs ==
    {Point(id, <<"a">>, [Zone |-> z]) :
        id \in {<<>>, <<"p1">>, <<"p2">>}, z \in {NoTag, Str(<<"a">>)}}
PointLists ==
    {<<>>} \cup {<<e>> : e \in PointInputs}
    \cup {<<e, f>> : e \in PointInputs, f \in PointInputs}

\* encode_commit_add_sites(sites) is called
CallEncodeCommitAdd ==
    /\ z_fn = "none"
    /\ z_in.fn = "encode_commit_add_sites"
    /\ z_fn' = z_in.fn
    /\ z_out' = EncodeCommitAdd(z_in.arg)
    /\ UNCHANGED z_in
    /\ UNCHANGED notCodec

\* encode_commit_update_points(points) is called
CallEncodeCommitUpdatePoints ==
    /\ z_fn = "none"
    /\ z_in.fn = "encode_commit_update_points"
    /\ z_fn' = z_in.fn
    /\ z_out' = EncodeCommitUpdatePoints(z_in.arg)
    /\ UNCHANGED z_in
    /\ UNCHANGED notCodec

\* EntityOperations.update_points(points) is called: it returns [] for no
\* points, raises for a point without id, or encodes the grid and awaits
\* post_zinc("commit", grid).
CallUpdatePoints ==
    /\ z_fn = "none"
    /\ z_in.fn = "update_points"
    /\ z_fn' = z_in.fn
    /\ z_out' =
        IF z_in.arg = <<>> THEN Returned(<<>>)
        ELSE IF \E i \in 1..Len(z_in.arg) : z_in.arg[i].id = <<>>
        THEN RaisedIn("ValueError")
        ELSE LET g == EncodeCommitUpdatePoints(z_in.arg) IN
             IF g.raised # "None" THEN g
             ELSE [raised |-> "pending", value |-> g.value, posted |-> TRUE]
    /\ UNCHANGED z_in
    /\ UNCHANGED notCodec

\* post_zinc ends for update_points: CommitError for meta.err, the rows
\* otherwise; an exception of post_zinc passes through.
UpdatePointsEnds ==
    /\ z_fn = "update_points"
    /\ z_out.raised = "pending"
    /\ \E post \in PostZincResults :
        z_out' = [z_out EXCEPT !.raised =
                    IF post \in PostZincRaises THEN post
                    ELSE IF post = "json_err" THEN "CommitError"
                    ELSE "None"]
    /\ UNCHANGED <<z_fn, z_in>>
    /\ UNCHANGED notCodec

\* _escape_zinc_string(s) is called
CallEscapeZincString ==
    /\ z_fn = "none"
    /\ z_in.fn = "_escape_zinc_string"
    /\ z_fn' = z_in.fn
    /\ z_out' = Returned(EscapeZincString(z_in.arg))
    /\ UNCHANGED z_in
    /\ UNCHANGED notCodec

HisWriteValues ==
    {Num("72.5"), Bool("True"), Bool("False")}
    \cup {Str(v) : v \in SeqsUpTo({"DQ", "a"}, MaxEntityStrLen)}
HisWriteSamples ==
    [point_id : {"p1"}, timestamp : {1}, tzinfo : {"UTC"},
     value : HisWriteValues]
HisWriteLists ==
    {<<>>} \cup {<<x>> : x \in HisWriteSamples}
    \cup {<<x, y>> : x \in HisWriteSamples, y \in HisWriteSamples}

DatetimeDicts ==
    {DatetimeDict(zone, tz) :
        zone \in ZoneNames \cup {"none"}, tz \in ZoneNames \cup {"absent", ""}}

\* encode_his_write_rpc(samples) is called
CallEncodeHisWriteRpc ==
    /\ z_fn = "none"
    /\ z_in.fn = "encode_his_write_rpc"
    /\ z_fn' = z_in.fn
    /\ z_out' = Returned(EncodeHisWriteRpc(z_in.arg))
    /\ UNCHANGED z_in
    /\ UNCHANGED notCodec

HistorySampleArgs ==
    [pointId : {"p1"}, timestamp : TimestampArgs,
     value : {Num("72.5"), Str(<<"a">>)}]

\* HistorySample(...) is called
CallHistorySample ==
    /\ z_fn = "none"
    /\ z_in.fn = "HistorySample"
    /\ z_fn' = z_in.fn
    /\ z_out' = NewHistorySample(z_in.arg.pointId, z_in.arg.timestamp,
                                 z_in.arg.value)
    /\ UNCHANGED z_in
    /\ UNCHANGED notCodec

\* the sample just constructed is handed to encode_his_write_rpc
EncodeConstructedSample ==
    /\ z_fn = "HistorySample"
    /\ z_out.raised = "None"
    /\ z_fn' = "encode_his_write_rpc(HistorySample)"
    /\ z_in' = Call(z_fn', <<z_out.value>>)
    /\ z_out' = Returned(EncodeHisWriteRpc(<<z_out.value>>))
    /\ UNCHANGED notCodec

\* _parse_zinc_datetime(value) is called
CallParseZincDatetime ==
    /\ z_fn = "none"
    /\ z_in.fn = "_parse_zinc_datetime"
    /\ z_fn' = z_in.fn
    /\ z_out' = Returned(ParseZincDatetime(z_in.arg))
    /\ UNCHANGED z_in
    /\ UNCHANGED notCodec

CodecInit ==
    /\ CodecIdle
    /\ \/ \E x \in SeqsUpTo(EscapeAlphabet, MaxStrLen) :
            z_in = Call("_escape_zinc_string", x)
       \/ \E x \in SiteLists : z_in = Call("encode_commit_add_sites", x)
       \/ \E x \in PointLists : z_in = Call("encode_commit_update_points", x)
       \/ \E x \in PointLists : z_in = Call("update_points", x)
       \/ \E x \in HisWriteLists : z_in = Call("encode_his_write_rpc", x)
       \/ \E x \in DatetimeDicts : z_in = Call("_parse_zinc_datetime", x)
       \/ \E x \in HistorySampleArgs : z_in = Call("HistorySample", x)

CodecNext ==
    \/ CallEscapeZincString
    \/ CallEncodeCommitAdd
    \/ CallEncodeCommitUpdatePoints
    \/ CallUpdatePoints
    \/ UpdatePointsEnds
    \/ CallEncodeHisWriteRpc
    \/ CallParseZincDatetime
    \/ CallHistorySample
    \/ EncodeConstructedSample

-----------------------------------------------------------------------------
(* Claims: ScramAuthenticator (SpecAuth) *)

Phases == <<"HELLO", "CLIENT-FIRST", "CLIENT-FINAL">>

\* C3: a HELLO response without a WWW-Authenticate header makes authenticate()
\* raise with only the HELLO request sent; a CLIENT-FIRST response whose status
\* is not 401 makes it raise with only HELLO and CLIENT-FIRST sent.
C3_PhaseGating ==
    /\ (Len(a_resp) >= 1 /\ a_resp[1].kind = "response"
            /\ a_resp[1].header = "absent")
        => (a_pc = "raised" /\ a_error = "HELLO" /\ Len(a_sent) = 1
            /\ a_sent[1].phase = "HELLO")
    /\ (Len(a_resp) >= 2 /\ a_resp[2].kind = "response"
            /\ a_resp[2].status # 401)
        => (a_pc = "raised" /\ a_error = "CLIENT-FIRST" /\ Len(a_sent) = 2
            /\ \A i \in 1..Len(a_sent) : a_sent[i].phase # "CLIENT-FINAL")

\* A CLIENT-FIRST response with status 200 and an otherwise complete
\* challenge has been refused.
C3_Witness ==
    /\ Len(a_resp) = 2
    /\ a_resp[2].status = 200
    /\ a_resp[2].header = "fields"
    /\ a_resp[2].handshakeToken = "h2"
    /\ a_resp[2].data = "ok"
    /\ a_pc = "raised"

\* C4: the requests sent are always a prefix of HELLO, CLIENT-FIRST,
\* CLIENT-FINAL; authenticate() has returned only after all three, answered
\* 200 or 401, then 401, then 200; CLIENT-FIRST carried the handshake token of
\* the HELLO response and CLIENT-FINAL the one of the CLIENT-FIRST response.
C4_LinearHandshake ==
    /\ Len(a_sent) <= 3
    /\ \A i \in 1..Len(a_sent) : a_sent[i].phase = Phases[i]
    /\ a_pc = "returned" =>
        /\ Len(a_sent) = 3
        /\ Len(a_resp) = 3
        /\ \A i \in 1..3 : a_resp[i].kind = "response"
        /\ a_resp[1].status \in {200, 401}
        /\ a_resp[2].status = 401
        /\ a_resp[3].status = 200
        /\ a_sent[2].handshakeToken = a_resp[1].handshakeToken
        /\ a_sent[3].handshakeToken = a_resp[2].handshakeToken

\* A handshake that returned a token, with distinct handshake tokens in the
\* HELLO and CLIENT-FIRST responses.
C4_Witness ==
    /\ a_pc = "returned"
    /\ a_result = "tA"
    /\ a_resp[1].handshakeToken = "h1"
    /\ a_resp[2].handshakeToken = "h2"
    /\ a_sent[3].handshakeToken = "h2"

\* C5: authenticate() returns only a non-empty authToken, the one of the
\* Authentication-Info header of the CLIENT-FINAL response, and only when no
\* field (handshakeToken or data of a challenge, authToken or data of
\* Authentication-Info) was absent; otherwise it raises.
C5_NoPartialCredential ==
    /\ a_pc \in {"returned", "raised"} => (a_pc = "raised") # (a_result # "None")
    /\ a_pc = "returned" =>
        /\ a_result # ""
        /\ a_result = a_resp[3].authToken
        /\ a_resp[1].handshakeToken # ""
        /\ a_resp[2].handshakeToken # ""
        /\ a_resp[2].data # ""
        /\ a_resp[3].authToken # ""
        /\ a_resp[3].data # ""

\* C32: within the handshake, retries apply only to transport-level faults:
\* after a handshake request (HELLO, CLIENT-FIRST or CLIENT-FINAL) has failed
\* with a network error or timeout it is retried, so authenticate() ends
\* with such a fault only when the same request had failed that way before;
\* after a SCRAM logic error (unexpected status, missing header or field,
\* failed verification) nothing is sent again and authenticate() has ended
\* with AuthenticationError.
C32_OnlyTransportFaultsRetried ==
    (a_resp # <<>> /\ a_pc # "returned") =>
        LET last == a_resp[Len(a_resp)] IN
        IF last = NetworkError
        THEN (a_pc = "raised") =>
                \E k \in 1..(Len(a_resp) - 1) :
                    /\ a_resp[k] = NetworkError
                    /\ a_sent[k].phase = a_sent[Len(a_sent)].phase
        ELSE (a_pc = "raised") =>
                /\ Len(a_sent) = Len(a_resp)
                /\ \A k \in 1..(Len(a_sent) - 1) :
                       a_sent[k].phase # a_sent[k + 1].phase

-----------------------------------------------------------------------------
(* Claims: TokenManager (SpecToken) *)

\* Every task of the round called get_token() on an absent or expired cache
\* before any handshake of the round had completed, no invalidate() was
\* called, and every call has returned a (non-empty) token.
GetTokenBatch ==
    /\ \A t \in Tasks :
        /\ t_op[t] = "get_token"
        /\ t_early[t]
        /\ t_pc[t] = "returned"
        /\ t_result[t] # ""
    /\ invalidations = 0

OneHandshakeOneToken ==
    /\ handshakes = 1
    /\ \A t, u \in Tasks : t_result[t] = t_result[u]

\* C1 as stated: the concurrent get_token() calls of a round, launched on an
\* absent or expired cache, make exactly one handshake and return the same
\* token.
C1_Original == GetTokenBatch => OneHandshakeOneToken

\* C1 as amended: the same, when the clock is still before the expiry that
\* the first handshake set once all the calls have returned.
C1_SingleFlight == (GetTokenBatch /\ now < first_expiry) => OneHandshakeOneToken

\* All the calls have returned the token of the one handshake; one call ran
\* it and another waited for it.
C1_Witness ==
    /\ GetTokenBatch
    /\ now < first_expiry
    /\ handshakes = 1
    /\ \E t, u \in Tasks : t_ran[t] /\ ~t_ran[u]

Cached == token \notin {"None", ""} /\ token_expiry # NoExpiry /\ now < token_expiry

\* A step in which a task that waited for the guard goes on: it re-checks the
\* cache and returns the cached token without a handshake, or starts one.
RecheckStep ==
    \A t \in Tasks :
        /\ (t_pc[t] = "waiting" /\ t_pc'[t] # "waiting") =>
            /\ lock_holder = 0
            /\ IF Cached
               THEN /\ t_pc'[t] = "returned"
                    /\ t_result'[t] = token
                    /\ handshakes' = handshakes
               ELSE /\ t_pc'[t] = "authenticating"
                    /\ handshakes' = handshakes + 1
        /\ (t_pc[t] = "idle" /\ t_pc'[t] # "idle" /\ ~Cached /\ lock_holder # 0)
            => t_pc'[t] = "waiting"

\* C2: at most one authenticate() is in flight, run by the holder of the
\* guard; a caller that finds the cache absent or expired while a refresh
\* runs waits for the guard, and re-checks the cache when it gets it.
C2_SingleRefreshInFlight ==
    /\ [](/\ Cardinality({t \in Tasks : t_pc[t] = "authenticating"}) <= 1
          /\ \A t \in Tasks : t_pc[t] = "authenticating" => lock_holder = t)
    /\ [][RecheckStep]_vars

\* One call ran the handshake; another, launched meanwhile, waited for the
\* guard and returned the cached token without a handshake.
C2_Witness ==
    \E t, u \in Tasks :
        /\ t_ran[t] /\ t_pc[t] = "returned"
        /\ t_early[u] /\ ~t_ran[u] /\ t_pc[u] = "returned"
        /\ t_result[u] = t_result[t]
        /\ handshakes = 1

\* A step of a get_token() call.
GetTokenStep ==
    \A t \in Tasks :
        t_op'[t] = "get_token" =>
            \* it returns without a handshake only the valid cached token
            /\ (t_pc[t] \in {"idle", "waiting"} /\ t_pc'[t] = "returned") =>
                /\ Cached
                /\ t_result'[t] = token
                /\ handshakes' = handshakes
                /\ UNCHANGED <<token, token_expiry>>
            \* a call on a valid cache returns at once
            /\ (t_pc[t] = "idle" /\ Cached) => t_pc'[t] = "returned"
            \* it starts a handshake only on an absent or expired cache
            /\ (t_pc[t] \in {"idle", "waiting"} /\ t_pc'[t] = "authenticating")
                => ~Cached
            \* a call on an absent or expired cache waits or starts a handshake
            /\ (t_pc[t] = "idle" /\ ~Cached)
                => t_pc'[t] \in {"waiting", "authenticating"}
            \* the handshake's token is cached with a fresh expiry
            /\ (t_pc[t] = "authenticating" /\ t_pc'[t] = "returned") =>
                /\ token' = t_result'[t]
                /\ token_expiry' = now + cache_duration

\* C6: get_token() returns the cached token without a handshake exactly when,
\* at its check, a token is cached and the clock is before its expiry (the
\* time of the refresh that stored it + cache_duration); otherwise it goes to a
\* handshake, whose token it caches with a fresh expiry.
C6_CachedUntilExpiry == [][GetTokenStep]_vars

\* Of two get_token() calls one ran the handshake and the other returned its
\* token from the cache, which has since expired.
C6_Witness ==
    \E t, u \in Tasks :
        /\ t_op[t] = "get_token" /\ t_ran[t] /\ t_pc[t] = "returned"
        /\ t_op[u] = "get_token" /\ ~t_ran[u] /\ ~t_early[u]
        /\ t_pc[u] = "returned" /\ t_result[u] = t_result[t]
        /\ token = t_result[t]
        /\ now >= token_expiry

\* C8: every refresh_token() call that has returned ran a handshake of its
\* own.
C8_RefreshForces ==
    \A t \in Tasks :
        (t_op[t] = "refresh_token" /\ t_pc[t] = "returned") => t_ran[t]

\* The guard is held only by a task that is in authenticate(), and a free
\* guard with callers queued for it has its first caller ready to take it.
GuardNeverStuck ==
    /\ \A t \in Tasks : lock_holder = t => t_pc[t] = "authenticating"
    /\ (lock_holder = 0 /\ lock_waiters # <<>>) =>
            t_pc[Head(lock_waiters)] = "waiting"

\* A step in which authenticate() raises inside refresh_token(), and a step
\* in which a caller that waited for the guard goes on.
FailedRefreshStep ==
    \A t \in Tasks :
        /\ (t_pc[t] = "authenticating" /\ t_pc'[t] = "raised") =>
            /\ token' = token
            /\ token_expiry' = token_expiry
            /\ lock_holder' = 0
            /\ lock_waiters' = lock_waiters
        /\ (t_pc[t] = "waiting" /\ t_pc'[t] # "waiting" /\ ~Cached) =>
            /\ t_pc'[t] = "authenticating"
            /\ lock_holder' = t
            /\ t_ran'[t]
            /\ handshakes' = handshakes + 1

InvalidateDuringRefreshStep ==
    /\ invalidations' = invalidations + 1 =>
        UNCHANGED <<t_pc, lock_holder, lock_waiters, handshakes>>
    /\ \A t \in Tasks :
        /\ (t_pc[t] = "authenticating" /\ t_pc'[t] = "returned") =>
            /\ token' = t_result'[t]
            /\ token_expiry' = now + cache_duration
        /\ (inv_in_flight /\ Cached /\ t_pc[t] = "idle"
                /\ t_op'[t] = "get_token") =>
            /\ t_pc'[t] = "returned"
            /\ t_result'[t] = token
            /\ handshakes' = handshakes

\* C34: invalidate() does not cancel an in-flight refresh: when invalidate()
\* runs while refresh_token() is suspended in the handshake, the refresh goes
\* on and, when it completes, stores the handshake's token and a fresh
\* expiry, and get_token() then returns that token without a new handshake.
C34_InvalidateDoesNotCancelRefresh == [][InvalidateDuringRefreshStep]_vars

\* invalidate() ran during the round's only handshake, whose token is cached
\* and has been returned by a get_token() call that ran no handshake.
C34_Witness ==
    \E t, u \in Tasks :
        /\ inv_in_flight
        /\ handshakes = 1
        /\ t_ran[t] /\ t_pc[t] = "returned"
        /\ token = t_result[t]
        /\ Cached
        /\ t_op[u] = "get_token" /\ ~t_ran[u] /\ ~t_early[u]
        /\ t_pc[u] = "returned" /\ t_result[u] = token

-----------------------------------------------------------------------------
(* Claims: RetryPolicy and SessionManager (SpecSession, SpecSessionFair) *)

Last(q) == q[Len(q)]

\* C7: once an authenticated request has been rejected with HTTP 401, the
\* token cache is cleared.
C7_InvalidatedOnRejection ==
    (/\ s_op \in SessionOps
     /\ s_pc = "raised"
     /\ Len(s_log) >= 1
     /\ Last(s_log).kind = "response"
     /\ Last(s_log).status = 401
     /\ Last(s_auth) # "none")
        => token = "None"

\* An attempt that failed with a network or timeout failure or with an HTTP
\* 5xx status error.
RetryableFailure(o) ==
    /\ o.kind = "exception"
    /\ \/ o.type \in {"RequestError", "TimeoutException", "asyncio.TimeoutError"}
       \/ o.type = "HTTPStatusError" /\ o.status \in 500..599

AttemptsBounded ==
    /\ attempts <= max_retries + 1
    /\ Len(s_log) <= attempts
    \* it returns at the first attempt that succeeds
    /\ s_pc = "returned" =>
        /\ Len(s_log) = attempts
        /\ Attempt(s_op, Last(s_log)).ok
        /\ \A i \in 1..(attempts - 1) : ~Attempt(s_op, s_log[i]).ok
    \* when every attempt failed with a retryable failure, it fails after
    \* exactly max_retries + 1 attempts
    /\ (s_pc \in {"returned", "raised"}
            /\ \A i \in 1..Len(s_log) : RetryableFailure(s_log[i]))
        => (s_pc = "raised" /\ attempts = max_retries + 1
            /\ Len(s_log) = max_retries + 1)

\* C9: execute() invokes the operation at most max_retries + 1 times, returns
\* at the first success, fails after exactly max_retries + 1 attempts when all
\* of them fail with a retryable failure, and always ends.
C9_BoundedAttempts ==
    /\ []AttemptsBounded
    /\ (s_pc \in {"in_flight", "sleeping"}) ~> (s_pc \in {"returned", "raised"})

\* With the default max_retries of 3, four attempts have failed with a
\* retryable failure and execute() has raised.
C9_Witness ==
    /\ max_retries = DefaultMaxRetries
    /\ s_pc = "raised"
    /\ attempts = DefaultMaxRetries + 1
    /\ sleeps = DefaultMaxRetries
    /\ \A i \in 1..Len(s_log) : RetryableFailure(s_log[i])

\* What an attempt met is a failure other than a network or timeout failure
\* and other than an HTTP 5xx response: a 4xx response, a 200 body that does
\* not decode, a domain error in a 200 body, another exception.
OtherFailure(o) ==
    \/ o.kind = "response" /\ o.status \in 400..499
    \/ o.kind = "response" /\ o.status = 200 /\ o.body \in {"not_json", "json_err"}
    \/ o.kind = "exception" /\ o.type = "ValueError"
    \/ o.kind = "exception" /\ o.type = "HTTPStatusError" /\ o.status \in 400..499

ServerFailure(o) == o.kind = "response" /\ o.status \in 500..599
NetworkFailure(o) ==
    o.kind = "exception" /\ o.type \in {"RequestError", "TimeoutException"}

\* C11: a 5xx response to post_zinc, get_json or post_json is retryable: while
\* fewer than max_retries + 1 attempts were made, the request does not end with
\* the attempt that met it (it is resent, and a later 200 makes it succeed).
C11_ServerErrorRetried ==
    s_op \in SessionOps =>
        \A i \in 1..Len(s_log) :
            (ServerFailure(s_log[i]) /\ i < max_retries + 1)
                => ~(i = Len(s_log) /\ s_pc \in {"returned", "raised"})

\* C12: a session operation whose every attempt failed with a network error or
\* a timeout fails, after its retries, with SkysparkConnectionError.
C12_ConnectionErrorKind ==
    (/\ s_op \in SessionOps
     /\ s_pc = "raised"
     /\ \A i \in 1..Len(s_log) : NetworkFailure(s_log[i]))
        => s_result = "SkysparkConnectionError"

\* the Authorization header built from what is cached: the token, or no header
\* when none is cached or it is empty
HeaderOfCache == IF token \in {"None", ""} THEN "none" ELSE token

TokenCacheUntouched == UNCHANGED <<authVars, tmVars>>

\* C13: post_zinc, get_json and post_json never start a handshake and never
\* modify the token cache: every step of theirs leaves the authenticator and
\* the token manager as they are; each attempt, retries included, builds its
\* Authorization header from the token cached at the moment of that attempt.
C13_TokenReadPerAttempt ==
    /\ [](s_op \in SessionOps => Len(s_auth) = attempts)
    /\ [][/\ sessVars' # sessVars => TokenCacheUntouched
          /\ (s_op' \in SessionOps /\ s_pc # "in_flight"
                    /\ s_pc' = "in_flight")
                => Last(s_auth') = HeaderOfCache]_vars

\* A first attempt was sent with the cached token; the cache was invalidated
\* during the backoff; the retry in flight was sent without a token.
C13_Witness ==
    /\ s_op \in SessionOps
    /\ s_pc = "in_flight"
    /\ attempts = 2
    /\ s_auth[1] \in {"tA", "tB"}
    /\ s_auth[2] = "none"
    /\ token = "None"

-----------------------------------------------------------------------------
(* Claims: HistoryOperations (SpecPipeline, SpecChunking) *)

ChunkedDone == w_mode = "write_samples_chunked" /\ w_pc = "done"

CeilDiv(n, d) == (n + d - 1) \div d

RECURSIVE SumWritten(_)
SumWritten(rs) ==
    IF rs = <<>> THEN 0 ELSE Head(rs).samplesWritten + SumWritten(Tail(rs))

\* C14: write_samples_chunked returns exactly one result per chunk, that is
\* ceil(len(samples) / chunk_size) results; the i-th result is what the write
\* of the i-th chunk ended with, whatever the order in which the writes ended;
\* when all writes succeed, each samplesWritten is its chunk's length and they
\* sum to len(samples).
C14_OneResultPerChunk ==
    ChunkedDone =>
        /\ Len(results) = Len(chunks)
        /\ chunk_size >= 1 =>
            Len(results) = CeilDiv(Len(w_samples), chunk_size)
        /\ \A i \in 1..Len(results) :
            /\ results[i] = c_outcome[i]
            /\ results[i].success <=> c_post[i] \in {"json", "text"}
            /\ results[i].success =>
                results[i].samplesWritten = Len(chunks[i])
        /\ (chunk_size >= 1 /\ \A i \in 1..Len(results) : results[i].success)
            => SumWritten(results) = Len(w_samples)

\* Two chunks, the second shorter, whose writes ended in the reverse of their
\* order and with different outcomes, and the list was returned.
C14_Witness ==
    /\ ChunkedDone
    /\ Len(results) = 2
    /\ Len(chunks[1]) # Len(chunks[2])
    /\ done_order = <<2, 1>>
    /\ results[1].success
    /\ ~results[2].success

\* C15: at most max_concurrent chunk writes are in flight at any instant.
C15_BoundedInFlight ==
    w_mode = "write_samples_chunked" =>
        Cardinality(InFlight(c_state)) <= max_concurrent

\* max_concurrent writes are in flight and a further chunk waits for the
\* semaphore.
C15_Witness ==
    /\ w_mode = "write_samples_chunked"
    /\ max_concurrent = MaxMaxConcurrent
    /\ Cardinality(InFlight(c_state)) = max_concurrent
    /\ Pending(c_state) # {}

Failed(i) == c_post[i] \in PostZincRaises \cup {"json_err"}

\* C16: if the write of chunk k fails, for any reason, while the other writes
\* succeed, the call still returns one result per chunk, of which exactly
\* result k is unsuccessful (samplesWritten 0 and an error message) and every
\* other is successful with its chunk's length: a failing chunk never aborts
\* or cancels its siblings, each chunk is written and ends on its own.
C16_FailureIsolated ==
    /\ \A i \in DOMAIN c_state : c_state[i] \in {"pending", "writing", "finished"}
    /\ ChunkedDone =>
        /\ \A i \in DOMAIN c_state : c_post[i] \in PostZincResults
        /\ \A k \in DOMAIN c_state :
            (Failed(k) /\ \A i \in DOMAIN c_state \ {k} : ~Failed(i)) =>
                /\ Len(results) = Len(chunks)
                /\ ~results[k].success
                /\ results[k].samplesWritten = 0
                /\ results[k].error # "None"
                /\ \A i \in DOMAIN c_state \ {k} :
                    /\ results[i].success
                    /\ results[i].samplesWritten = Len(chunks[i])
                    /\ results[i].error = "None"

\* Of three chunks the first write to end, that of chunk 1, failed; chunks 2
\* and 3 were written after it and succeeded.
C16_Witness ==
    /\ ChunkedDone
    /\ Len(chunks) = 3
    /\ done_order = <<1, 2, 3>>
    /\ max_concurrent = 1
    /\ ~results[1].success
    /\ results[2].success
    /\ results[3].success

Chunked == w_mode = "write_samples_chunked" /\ w_pc # "idle"

\* C17: in every chunk handed to write_samples, the samples of any one point
\* are in non-decreasing timestamp order, whatever the order of the input.
C17_PointOrderInChunks ==
    Chunked =>
        \A c \in 1..Len(chunks) :
            \A i, j \in 1..Len(chunks[c]) :
                (i < j /\ chunks[c][i].point_id = chunks[c][j].point_id)
                    => chunks[c][i].timestamp <= chunks[c][j].timestamp

\* The input holds two samples of one point, the later one first, around a
\* sample of another point; a chunk holds the two in timestamp order.
C17_Witness ==
    /\ Chunked
    /\ Len(w_samples) = 3
    /\ w_samples[1].point_id = w_samples[3].point_id
    /\ w_samples[1].point_id # w_samples[2].point_id
    /\ w_samples[1].timestamp > w_samples[3].timestamp
    /\ chunks[1] = <<w_samples[3], w_samples[1]>>

SinglePoint(samples) ==
    \A i, j \in 1..Len(samples) : samples[i].point_id = samples[j].point_id

Count(list, x) == Cardinality({i \in 1..Len(list) : list[i] = x})

\* C18: for input samples that all belong to one point, the chunks put one
\* after the other in index order are exactly the input samples, in
\* non-decreasing timestamp order (for a chunk_size of at least 1).
C18_SinglePointConcatenation ==
    (Chunked /\ SinglePoint(w_samples) /\ chunk_size >= 1) =>
        LET all == Flatten(chunks) IN
        /\ Len(all) = Len(w_samples)
        /\ \A x \in Samples : Count(all, x) = Count(w_samples, x)
        /\ \A i, j \in 1..Len(all) :
            i < j => all[i].timestamp <= all[j].timestamp

\* Three samples of one point, not in timestamp order and two of them with the
\* same timestamp, cut into a chunk of two and a chunk of one.
C18_Witness ==
    /\ Chunked
    /\ SinglePoint(w_samples)
    /\ Len(w_samples) = 3
    /\ chunk_size = 2
    /\ Len(chunks) = 2
    /\ w_samples[1].timestamp > w_samples[2].timestamp
    /\ w_samples[1].timestamp = w_samples[3].timestamp
    /\ w_samples[1] # w_samples[3]

\* C36: for every chunk_size >= 1 the chunks form a partition of the input:
\* every input sample is in exactly one chunk (none lost, none duplicated),
\* every chunk is non-empty and holds at most chunk_size samples, and every
\* chunk except the last holds exactly chunk_size samples.
C36_ChunksPartitionInput ==
    (Chunked /\ chunk_size >= 1) =>
        LET all == Flatten(chunks) IN
        /\ Len(all) = Len(w_samples)
        /\ \A x \in Samples : Count(all, x) = Count(w_samples, x)
        /\ \A c \in 1..Len(chunks) :
            /\ chunks[c] # <<>>
            /\ Len(chunks[c]) <= chunk_size
            /\ c < Len(chunks) => Len(chunks[c]) = chunk_size

\* Three samples of two points, one of them twice in the input, cut into a
\* chunk of two and a short last chunk.
C36_Witness ==
    /\ Chunked
    /\ chunk_size = 2
    /\ Len(w_samples) = 3
    /\ w_samples[1] = w_samples[3]
    /\ w_samples[1].point_id # w_samples[2].point_id
    /\ Len(chunks) = 2
    /\ Len(chunks[2]) = 1

\* C37: write_samples_chunked never drops samples silently: for non-empty
\* samples and every chunk_size it accepts without raising, chunk_size = 0
\* included, it returns at least one result and every input sample has been
\* passed to a write call.
C37_NoSilentDrop ==
    (ChunkedDone /\ w_samples # <<>>) =>
        /\ Len(results) >= 1
        /\ posts = Len(chunks)
        /\ \A x \in Samples : Count(Flatten(chunks), x) = Count(w_samples, x)

\* C38: for chunk_size >= 1 and max_concurrent >= 1, if every chunk write
\* terminates (with success or failure), write_samples_chunked terminates:
\* every chunk is eventually admitted through the gate, a chunk that fails
\* releases its slot like one that succeeds, and the call returns with every
\* chunk's write ended.
C38_ChunkedWriteTerminates ==
    /\ [](ChunkedDone => \A i \in DOMAIN c_state : c_state[i] = "finished")
    /\ (Chunked /\ chunk_size >= 1 /\ max_concurrent >= 1) ~> ChunkedDone

\* The call has returned although there were more chunks than slots and the
\* first write failed.
C38_Witness ==
    /\ ChunkedDone
    /\ Len(chunks) > max_concurrent
    /\ ~results[1].success
    /\ results[Len(results)].success

\* the timestamps of point p in chunk c
TimestampsOf(p, c) ==
    {chunks[c][k].timestamp : k \in {k \in 1..Len(chunks[c]) :
                                        chunks[c][k].point_id = p}}

\* point p has samples in chunks i and j, the later ones in j
SpansChunks(p, i, j) ==
    /\ i < j
    /\ TimestampsOf(p, i) # {}
    /\ TimestampsOf(p, j) # {}
    /\ \A t \in TimestampsOf(p, i) : \A u \in TimestampsOf(p, j) : t < u

\* chunk i's write ended before chunk j's
EndedBefore(i, j) ==
    \E a, b \in 1..Len(done_order) :
        a < b /\ done_order[a] = i /\ done_order[b] = j

\* C39: no order holds between the chunks of one point: of the writes in
\* flight together, any one may be the next to end, whichever chunk it is of;
\* so with max_concurrent >= 2 the chunk with a point's later samples can end
\* before the chunk with its earlier ones (C39_Witness).
C39_NoOrderBetweenChunks ==
    Chunked => \A j \in InFlight(c_state) : ENABLED WriteEnds(j)

C39_Witness ==
    /\ ChunkedDone
    /\ max_concurrent >= 2
    /\ \E p \in Points : \E i, j \in 1..Len(chunks) :
            SpansChunks(p, i, j) /\ EndedBefore(j, i)

C20_EmptyInputSendsNothing ==
    (w_samples = <<>> /\ w_mode # "none") =>
        /\ w_pc = "done"
        /\ encodes = 0
        /\ posts = 0
        /\ chunks = <<>>
        /\ w_mode = "write_samples" =>
            results = <<WriteResult(TRUE, 0, "None")>>
        /\ w_mode = "write_samples_chunked" => results = <<>>

\* write_samples([]) has returned.
C20_Witness ==
    /\ w_samples = <<>>
    /\ w_mode = "write_samples"
    /\ w_pc = "done"
    /\ results[1].success

\* what write_samples(samples, use_rpc=True) returns when post_zinc does `post`
ResultWithRpc(samples, post) ==
    IF samples = <<>> THEN WriteResult(TRUE, 0, "None")
    ELSE LET r == WriteSamplesRpc(samples, post) IN
         IF r.kind = "exception" THEN WriteResult(FALSE, 0, r.error) ELSE r

\* C22: the two write methods are one: write_samples(samples, use_rpc=False)
\* sends the grid that use_rpc=True sends, to the same endpoint (evalAll), and
\* returns the result that use_rpc=True returns.
C22_UseRpcFalseIsAnAlias ==
    (w_mode = "write_samples" /\ ~use_rpc) =>
        /\ requests = IF w_samples = <<>> THEN <<>>
                      ELSE <<WriteSamplesRpcRequest(w_samples)>>
        /\ \A k \in 1..Len(requests) : requests[k].endpoint = "evalAll"
        /\ w_pc = "done" =>
            results = <<ResultWithRpc(w_samples,
                                      IF c_post = <<>> THEN "none"
                                      ELSE c_post[1])>>

\* write_samples(samples, use_rpc=False) has posted a grid of two samples and
\* has returned.
C22_Witness ==
    /\ w_mode = "write_samples"
    /\ ~use_rpc
    /\ w_pc = "done"
    /\ Len(w_samples) = 2
    /\ Len(requests) = 1
    /\ c_post = <<"json">>
    /\ results[1].samplesWritten = 2

-----------------------------------------------------------------------------
(* Claims: a history write over the SessionManager (SpecWrite) *)

\* the 200 response whose grid carries err in its meta
ErrGrid == Resp(200, "json_err")
ErrGridReceived ==
    /\ w_mode = "write_samples"
    /\ \E k \in DOMAIN s_log : s_log[k] = ErrGrid

-----------------------------------------------------------------------------
(* Claims: SkysparkClient (SpecClient) *)

\* C23: two separate transports are used and never mixed: every handshake
\* request (HELLO, CLIENT-FIRST, CLIENT-FINAL) is sent on the authentication
\* session and every authenticated API request (post_zinc, get_json,
\* post_json) on the API session, and the two are different httpx clients.
C23_TransportsNotMixed ==
    /\ auth_session # "None" => auth_session # api_session
    /\ \A w \in wire :
        /\ w.request \in HandshakeRequests => w.client = auth_session
        /\ w.request \in SessionOps => w.client = api_session

\* The whole handshake and a retried post_zinc have been sent.
C23_Witness ==
    /\ \A h \in HandshakeRequests : Sent(auth_session, h) \in wire
    /\ Sent(api_session, "post_zinc") \in wire
    /\ s_op = "post_zinc"
    /\ attempts = 2

\* C35: over the lifetime of one client context exactly one handshake is
\* performed, at entry and before the SessionManager exists; no operation
\* calls get_token(), refresh_token() or invalidate(), so every API request,
\* also one made after the cache duration has elapsed, is sent with the token
\* obtained at entry.
C35_OneHandshakeAtEntry ==
    /\ handshakes <= 1
    /\ invalidations = 0
    /\ cl_pc = "constructed" => handshakes = 0
    /\ cl_pc \in {"entering", "failed"} =>
        /\ manager_session = "None"
        /\ attempts = 0
    /\ cl_pc \in {"entered", "closed"} =>
        /\ handshakes = 1
        /\ a_pc = "returned"
        /\ token = a_result
        /\ \A k \in DOMAIN s_auth : s_auth[k] = AuthHeader(a_result)

\* A request has been retried after the cached token's expiry; both attempts
\* carry the token of the handshake.
C35_Witness ==
    /\ cl_pc = "entered"
    /\ now >= token_expiry
    /\ a_result = "tA"
    /\ Len(s_auth) = 2
    /\ s_auth[2] = "tA"
    /\ s_log # <<>>

\* C40: both HTTP sessions opened by __aenter__ are closed on every way out
\* of the client context: after the body has ended, normally or with an
\* exception, and after the initial authentication has failed during entry,
\* no httpx client that was created is still open.
C40_SessionsClosedOnEveryWayOut ==
    cl_pc \in {"closed", "failed"} =>
        /\ auth_session # "None"
        /\ api_session # "None"
        /\ open_clients = {}

-----------------------------------------------------------------------------
(* Claims: the Zinc codec (SpecCodec) *)

Escaped == z_fn = "_escape_zinc_string"

\* the escape sequences of Zinc: a backslash and the character it stands for
EscapeCodes == {"BS", "DQ", "n", "r", "t"}

\* s is made of escape sequences and of characters other than the backslash
\* and the double quote
RECURSIVE WellEscaped(_)
WellEscaped(s) ==
    IF s = <<>> THEN TRUE
    ELSE IF Head(s) = "BS"
         THEN Len(s) >= 2 /\ s[2] \in EscapeCodes
              /\ WellEscaped(SubSeq(s, 3, Len(s)))
    ELSE Head(s) # "DQ" /\ WellEscaped(Tail(s))

\* how many escape sequences of s stand for the character c
RECURSIVE EscapesOf(_, _)
EscapesOf(s, c) ==
    IF Len(s) < 2 THEN 0
    ELSE IF Head(s) = "BS"
         THEN (IF s[2] = c THEN 1 ELSE 0) + EscapesOf(SubSeq(s, 3, Len(s)), c)
    ELSE EscapesOf(Tail(s), c)

\* C24: for every input string, the escaped string holds no newline, carriage
\* return, tab, NUL or other character below code point 32, and every double
\* quote and every backslash of the input is in it behind an escaping
\* backslash: no double quote of the output ends the quoted cell.
C24_EscapedOutputIsSafe ==
    Escaped =>
        LET out == z_out.value IN
        /\ \A i \in 1..Len(out) : out[i] \notin ControlChars
        /\ WellEscaped(out)
        /\ EscapesOf(out, "DQ") = Count(z_in.arg, "DQ")
        /\ EscapesOf(out, "BS") = Count(z_in.arg, "BS")

\* A string with a backslash, a double quote, a newline and a control
\* character has been escaped.
C24_Witness ==
    /\ Escaped
    /\ z_in.arg = <<"BS", "DQ", "LF", "VT">>
    /\ z_out.value = <<"BS", "BS", "BS", "DQ", "BS", "n">>

\* the escape sequences of s reversed, from left to right
RECURSIVE Unescape(_)
Unescape(s) ==
    IF s = <<>> THEN <<>>
    ELSE IF Head(s) = "BS" /\ Len(s) >= 2
         THEN <<CASE s[2] = "n" -> "LF"
                  [] s[2] = "r" -> "CR"
                  [] s[2] = "t" -> "TAB"
                  [] OTHER -> s[2]>>
              \o Unescape(SubSeq(s, 3, Len(s)))
    ELSE <<Head(s)>> \o Unescape(Tail(s))

\* C25: reversing the escape sequences of the escaped string gives the input
\* without its NUL and other control characters (below 32, except tab, CR and
\* LF) and with nothing else altered.
C25_EscapeRoundTrip ==
    Escaped =>
        Unescape(z_out.value)
            = SelectSeq(z_in.arg, LAMBDA c : c \notin {"NUL", "VT"})

\* A string with a backslash in front of an "n", a NUL and a newline has been
\* escaped.
C25_Witness ==
    /\ Escaped
    /\ z_in.arg = <<"BS", "n", "NUL", "LF">>
    /\ z_out.value = <<"BS", "BS", "n", "BS", "n">>

\* the lines of a text, each without the newline that ends it
RECURSIVE SplitLines(_)
SplitLines(text) ==
    IF text = <<>> THEN <<>>
    ELSE IF \E k \in 1..Len(text) : text[k] = "LF"
         THEN LET k == CHOOSE k \in 1..Len(text) :
                        text[k] = "LF" /\ \A j \in 1..(k - 1) : text[j] # "LF"
              IN  <<SubSeq(text, 1, k - 1)>>
                  \o SplitLines(SubSeq(text, k + 1, Len(text)))
    ELSE <<text>>

\* the cells of a line as a Zinc reader counts them: one more than the commas
\* outside double-quoted strings, a backslash inside a string taking the next
\* character with it
RECURSIVE CellCount(_, _)
CellCount(line, quoted) ==
    IF line = <<>> THEN 1
    ELSE IF quoted
         THEN IF Head(line) = "BS" THEN CellCount(SubSeq(line, 3, Len(line)), TRUE)
              ELSE CellCount(Tail(line), Head(line) # "DQ")
    ELSE IF Head(line) = "," THEN 1 + CellCount(Tail(line), FALSE)
    ELSE CellCount(Tail(line), Head(line) = "DQ")

AddedSites == z_fn = "encode_commit_add_sites" /\ z_in.arg # <<>>

\* C26: no string tag value can break the structure of the grid: for n >= 1
\* records and any content of their display names and custom tag values, the
\* commit-add grid has exactly 2 + n lines and every data row has as many
\* cells as the header has tags.
C26_NoStructureInjection ==
    AddedSites =>
        LET lines == SplitLines(z_out.value)
            tags == Cardinality(AllTags("add", z_in.arg))
        IN  /\ Len(lines) = 2 + Len(z_in.arg)
            /\ \A k \in 2..Len(lines) : CellCount(lines[k], FALSE) = tags

Reverse(list) == [k \in 1..Len(list) |-> list[Len(list) + 1 - k]]

\* the tag names of the header line
HeaderOf(grid) ==
    SelectSeq(SplitLines(grid)[2], LAMBDA c : c \notin {",", " "})

EncodedGrid ==
    /\ z_fn \in {"encode_commit_add_sites", "encode_commit_update_points"}
    /\ z_in.arg # <<>>
    /\ z_out.raised = "None"

\* C27: the header line of an entity grid is the sorted union of the entity
\* kind's required tag names and of every tag key of every record, without
\* id for add and with id for update; it is the same for the records in
\* another order, and every data row lists its cells in the header's order.
C27_HeaderSortedUnion ==
    EncodedGrid =>
        LET op == IF z_fn = "encode_commit_add_sites" THEN "add" ELSE "update"
            hdr == HeaderOf(z_out.value)
            keys == RequiredTags(z_in.arg[1].entity)
                    \cup UNION {DOMAIN ToZincDict(z_in.arg[i]) :
                                i \in 1..Len(z_in.arg)}
            expected == IF op = "add" THEN keys \ {"id"} ELSE keys \cup {"id"}
        IN  /\ {hdr[k] : k \in 1..Len(hdr)} = expected
            /\ \A j, k \in 1..Len(hdr) :
                j < k => LexLess(CodePoints[hdr[j]], CodePoints[hdr[k]])
            /\ SplitLines(z_out.value)[2] = Join([k \in 1..Len(hdr) |-> <<hdr[k]>>])
            /\ hdr = HeaderOf(CommitGrid(op, Reverse(z_in.arg)))
            /\ z_out.value =
                <<"ver:", "DQ", "3.0", "DQ", " ", "commit:", "DQ", op, "DQ", "LF">>
                \o SplitLines(z_out.value)[2] \o <<"LF">>
                \o Flatten([i \in 1..Len(z_in.arg) |->
                    LET d == ToZincDict(z_in.arg[i]) IN
                    Join([k \in 1..Len(hdr) |->
                            IF hdr[k] \in DOMAIN d THEN EncodeValue(d[hdr[k]])
                            ELSE <<>>])
                    \o <<"LF">>])

\* Two sites were encoded for add, one of them with an id and one with the
\* custom tag Zone: the header has Zone first and no id.
C27_Witness ==
    /\ EncodedGrid
    /\ z_fn = "encode_commit_add_sites"
    /\ Len(z_in.arg) = 2
    /\ z_in.arg[1].id # <<>>
    /\ z_in.arg[1].tags.Zone = NoTag
    /\ z_in.arg[2].tags.Zone # NoTag
    /\ HeaderOf(z_out.value) = <<"Zone", "dis", "refName", "site", "tz">>

LacksId == \E i \in 1..Len(z_in.arg) : z_in.arg[i].id = <<>>

\* C28: an update in which a record lacks an identifier fails fast:
\* encode_commit_update_points raises and returns no grid, not even for the
\* records that have ids, and update_points raises before a request is sent.
C28_UpdateFailsFast ==
    (z_fn \in {"encode_commit_update_points", "update_points"} /\ LacksId) =>
        /\ z_out.raised = "ValueError"
        /\ z_out.value = <<>>
        /\ ~z_out.posted

\* encode_commit_update_points was called with a point that has an id and
\* one that has none, and raised.
C28_Witness ==
    /\ z_fn = "encode_commit_update_points"
    /\ Len(z_in.arg) = 2
    /\ z_in.arg[1].id # <<>>
    /\ z_in.arg[2].id = <<>>
    /\ z_out.raised = "ValueError"

\* a line is one double-quoted string: it opens and closes with a double
\* quote and, in between, is made of escape sequences and of characters other
\* than the double quote and the backslash
WellQuoted(line) ==
    /\ Len(line) >= 2
    /\ Head(line) = "DQ"
    /\ line[Len(line)] = "DQ"
    /\ WellEscaped(SubSeq(line, 2, Len(line) - 1))

\* C29: for n >= 1 samples with number, boolean or string values,
\* encode_his_write_rpc emits the version line, the expr header and n rows,
\* and each row is one well-formed double-quoted string in which every
\* interior double quote, of the timestamp constructor and of a string value
\* alike, is backslash-escaped.
C29_HisWriteRowsWellFormed ==
    (z_fn = "encode_his_write_rpc" /\ z_in.arg # <<>>) =>
        LET lines == SplitLines(z_out.value) IN
        /\ Len(lines) = 2 + Len(z_in.arg)
        /\ lines[1] = <<"ver:", "DQ", "3.0", "DQ">>
        /\ lines[2] = <<"expr">>
        /\ \A k \in 3..Len(lines) : WellQuoted(lines[k])

\* C30: decoding a datetime dict whose tz field is absent uses the trailing
\* zone name of val as the zone of the result; when tz is present, the zone
\* of the tz field is used.
C30_ZoneOfDecodedDatetime ==
    z_fn = "_parse_zinc_datetime" =>
        /\ (z_in.arg.tz = "absent" /\ z_in.arg.zone # "none")
            => z_out.value.zone = z_in.arg.zone
        /\ z_in.arg.tz \in ZoneNames => z_out.value.zone = z_in.arg.tz

\* C31: a HistorySample cannot exist with a naive timestamp: constructing one
\* with a timestamp that has no zone/offset fails at construction (nothing is
\* returned), a timestamp with a zone gives a sample that keeps it, and every
\* constructed sample that reaches the encoder carries a zone, which is the
\* zone name the encoder writes.
C31_NoNaiveSample ==
    /\ z_fn = "HistorySample" =>
        IF ParseTimestamp(z_in.arg.timestamp) = NaiveTzinfo
        THEN z_out = RaisedIn("ValidationError")
        ELSE /\ z_out.raised = "None"
             /\ z_out.value.tzinfo = ParseTimestamp(z_in.arg.timestamp)
    /\ z_fn = "encode_his_write_rpc(HistorySample)" =>
        \A k \in 1..Len(z_in.arg) :
            /\ z_in.arg[k].tzinfo # NaiveTzinfo
            /\ TzNameOfSample(z_in.arg[k]) = z_in.arg[k].tzinfo

\* The constructor has refused a naive datetime.
C31_Witness ==
    /\ z_fn = "HistorySample"
    /\ z_in.arg.timestamp.form = "datetime"
    /\ z_in.arg.timestamp.zone = NaiveTzinfo
    /\ z_out.raised = "ValidationError"

-----------------------------------------------------------------------------
(* Specifications *)

InitAuth ==
    /\ AuthInit
    /\ TMParked
    /\ SessParked
    /\ PipeParked
    /\ CodecParked
    /\ ClientParked

InitToken ==
    /\ TMInit
    /\ AuthInit
    /\ SessParked
    /\ PipeParked
    /\ CodecParked
    /\ ClientParked

InitSession ==
    /\ SessInit
    /\ TMAuthenticated
    /\ AuthInit
    /\ PipeParked
    /\ CodecParked
    /\ ClientParked

InitPipeline ==
    /\ PipeInit
    /\ TMAuthenticated
    /\ AuthInit
    /\ SessParked
    /\ CodecParked
    /\ ClientParked

InitChunking ==
    /\ ChunkingInit
    /\ TMParked
    /\ AuthInit
    /\ SessParked
    /\ CodecParked
    /\ ClientParked

InitCodec ==
    /\ CodecInit
    /\ TMParked
    /\ AuthInit
    /\ SessParked
    /\ PipeParked
    /\ ClientParked

SpecAuth == InitAuth /\ [][AuthNext]_vars

SpecToken == InitToken /\ [][TMNext]_vars

SpecSession == InitSession /\ [][SessNext]_vars

SpecPipeline == InitPipeline /\ [][PipeNext]_vars

\* the event loop runs every task that can run and returns from gather()
\* when it can, and every write that was started ends.  The first condition
\* is WF_vars(Admit) written out: CanAdmit is ENABLED <<Admit>>_vars, for an
\* Admit step always counts one more post.
SpecPipelineFair ==
    /\ SpecPipeline
    /\ ([]<>~CanAdmit \/ []<><<Admit>>_vars)
    /\ WF_vars(WriteReturns)
    /\ \A i \in 1..MaxSamples : WF_vars(WriteEnds(i))

InitWrite ==
    /\ WriteInit
    /\ SessInit
    /\ TMAuthenticated
    /\ AuthInit
    /\ CodecParked
    /\ ClientParked

\* one write_samples call with the retries of its post_zinc
SpecWrite == InitWrite /\ [][WriteNext]_vars

\* the grouping, sorting and chunking of write_samples_chunked, for every input
SpecChunking == InitChunking /\ [][ChunkingNext]_vars

\* the Zinc codec, one call per behaviour, for every input of the model
SpecCodec == InitCodec /\ [][CodecNext]_vars

InitClient ==
    /\ ClientInit
    /\ AuthInit
    /\ TMParked
    /\ SessParked
    /\ PipeParked
    /\ CodecParked

\* one `async with SkysparkClient(...)` block
SpecClient == InitClient /\ [][ClientNext]_vars

\* execute() is a task of the event loop: an attempt whose transport call ends
\* is resumed, and so is a backoff whose delay is over.
SpecSessionFair ==
    SpecSession /\ WF_vars(AttemptEnds) /\ WF_vars(BackoffEnds)

=============================================================================
